---- MODULE Spec2Model ----
(***************************************************************************)
(* Model of the display-settings test helpers of brightnessandtimeout:     *)
(* the two DisplayTestManager variants (utils/common_utils.py and          *)
(* src/test_timeout.py) driving a device through ad.adb.shell.             *)
(*                                                                         *)
(* The device is the environment: every ad.adb.shell call either raises    *)
(* (a command fault) or returns a str/bytes value chosen by the device.    *)
(* Text is a sequence of one-character strings, so that decode, strip,     *)
(* isdigit and int are computed the way Python computes them.              *)
(***************************************************************************)
EXTENDS Integers, Sequences, FiniteSets, TLC

VARIABLES
    op,             \* the operation under execution
    pc,             \* position inside that operation
    out,            \* how the operation ended (return value or raise)
    cmds,           \* device commands and sleeps issued so far, in order
    variant,        \* which DisplayTestManager: "common_utils" or "test_timeout"
    coords,         \* self.coords: the names present in the coordinate map
    step,           \* navigation: index of the next entry of `steps`
    nav_out,        \* navigation: how the call ended (return or raise)
    nav_ret,        \* navigation: the call site to resume
    setting,        \* readback: the system setting key queried
    max_retries,    \* readback: the max_retries argument
    attempt,        \* readback: loop variable of `for attempt in range(max_retries)`
    rb_log,         \* readback: what ad.adb.shell gave on each attempt made
    rb_out,         \* readback: how the call ended (return value or raise)
    rb_ret,         \* readback: the call site to resume
    right_presses,  \* ramp: the right_presses argument
    left_presses,   \* ramp: the left_presses argument
    i,              \* ramp: loop variable of the press loops
    brightness_values,          \* ramp: the trace
    initial_brightness,         \* self.initial_brightness
    final_brightness,           \* self.final_brightness
    initial,                    \* _adjust_brightness_with_retry: local `initial`
    current_method_brightness,  \* _adjust_brightness_with_retry: local
    dropped,        \* ramp: presses whose except clause ran (no sample appended)
    timeout_key,    \* execute_timeout_test: the timeout_key argument
    expected_ms,    \* execute_timeout_test: the expected_ms argument
    wait_sec,       \* execute_timeout_test: the wait_sec argument
    actual_ms,      \* execute_timeout_test: local `actual_ms`
    screen_off,     \* execute_timeout_test: what _is_screen_off() returned
    devmode,        \* the device: "any" answers anything, "ideal" is the scripted
                    \* one, "constant" is one whose setting never changes
    dev,            \* the ideal or constant device's screen_brightness
    wake_attempt,   \* _wake_up_device: loop variable of `for attempt in range(max_retries)`
    wake_out,       \* how the wake-up call ended (return value or raise)
    setup_out,      \* how setup_test ended
    td_out,         \* how teardown_test ended
    screen_state,   \* _wake_up_device: local `screen_state`, None while unassigned
    verdict,        \* test_display_settings_workflow: "pass" or "fail"
    test_index,     \* run_display_tests.main: position in test_files
    returncodes,    \* process.returncode of each test process run so far
    report,         \* the PASSED / FAILED line printed for each of them
    session_logs,   \* run_display_tests.main: local `session_logs`
    merged,         \* what was written to the merged log, per session log
    exit_code       \* exit status of the run_display_tests.py process

rbvars == <<setting, max_retries, attempt, rb_log, rb_out, rb_ret>>

navvars == <<step, nav_out, nav_ret>>

rampvars == <<right_presses, left_presses, i, brightness_values, initial_brightness,
              final_brightness, initial, current_method_brightness, dropped>>

tovars == <<timeout_key, expected_ms, wait_sec, actual_ms, screen_off>>

devvars == <<devmode, dev>>

setupvars == <<wake_attempt, wake_out, setup_out, td_out, screen_state>>

suitevars == <<verdict, test_index, returncodes, report, session_logs, merged, exit_code>>

outervars == <<setupvars, suitevars>>

vars == <<op, pc, out, cmds, variant, coords, navvars, rbvars, rampvars, tovars, devvars,
          outervars>>

----------------------------------------------------------------------------
(* Bounds of the model *)

\* largest max_retries a standalone readback is called with
MaxRetries == 3

----------------------------------------------------------------------------
(* Text as Python sees it *)

DecimalChars == {"0", "1", "2", "3", "4", "5", "6", "7", "8", "9"}

\* SUPERSCRIPT TWO: str.isdigit() is True for it, int() rejects it
SuperTwo == "sup2"

\* a byte that is not valid UTF-8 (0xff)
BadByte == "xff"

WhitespaceChars == {" ", "\n"}

DigitValue(c) ==
    CASE c = "0" -> 0 [] c = "1" -> 1 [] c = "2" -> 2 [] c = "3" -> 3
      [] c = "4" -> 4 [] c = "5" -> 5 [] c = "6" -> 6 [] c = "7" -> 7
      [] c = "8" -> 8 [] c = "9" -> 9

\* bytes.decode('utf-8') succeeds iff every byte sequence is valid UTF-8
DecodeOk(body) == \A k \in 1..Len(body) : body[k] # BadByte

RECURSIVE LStrip(_)
LStrip(s) ==
    IF s # <<>> /\ Head(s) \in WhitespaceChars THEN LStrip(Tail(s)) ELSE s

RECURSIVE RStrip(_)
RStrip(s) ==
    IF s # <<>> /\ s[Len(s)] \in WhitespaceChars
    THEN RStrip(SubSeq(s, 1, Len(s) - 1))
    ELSE s

\* the response used as it came, trailing newline included
StripNothing(s) == s

\* str.strip()
Strip(s) == RStrip(LStrip(s))

\* str.isdigit(): non-empty and every character has the Unicode digit property
IsDigit(s) ==
    /\ s # <<>>
    /\ \A k \in 1..Len(s) : s[k] \in DecimalChars \cup {SuperTwo}

\* int(s) raises ValueError unless every character is a decimal digit
IntParses(s) ==
    /\ s # <<>>
    /\ \A k \in 1..Len(s) : s[k] \in DecimalChars

RECURSIVE IntOf(_)
\* int(s) for a string of decimal digits
IntOf(s) ==
    IF s = <<>> THEN 0
    ELSE 10 * IntOf(SubSeq(s, 1, Len(s) - 1)) + DigitValue(s[Len(s)])

NullStr == <<"n", "u", "l", "l">>

----------------------------------------------------------------------------
(* What ad.adb.shell can give back *)

Str(body)   == [type |-> "str",   body |-> body]
Bytes(body) == [type |-> "bytes", body |-> body]
Fault       == [type |-> "fault", body |-> <<>>]

\* values the device returns for a `settings get` query
SettingResults ==
    { Str(<<>>),
      Bytes(<<"\n">>),
      Str(NullStr),
      Bytes(NullStr \o <<"\n">>),
      Bytes(<<"0", "\n">>),
      Str(<<"7">>),
      Bytes(<<"1", "2", "\n">>),
      Str(<<"x">>),
      Str(<<SuperTwo>>),
      Bytes(<<BadByte>>) }

ShellResults == SettingResults \cup {Fault}

SettingKeys == {"screen_brightness", "screen_off_timeout"}

CharOfDigit(d) ==
    CASE d = 0 -> "0" [] d = 1 -> "1" [] d = 2 -> "2" [] d = 3 -> "3"
      [] d = 4 -> "4" [] d = 5 -> "5" [] d = 6 -> "6" [] d = 7 -> "7"
      [] d = 8 -> "8" [] d = 9 -> "9"

RECURSIVE DecimalStr(_)
\* the decimal digits of n >= 0, as `settings get` prints a value
DecimalStr(n) ==
    IF n < 10 THEN <<CharOfDigit(n)>>
    ELSE Append(DecimalStr(n \div 10), CharOfDigit(n % 10))

\* the scripted device of the end-to-end brightness scenario: the reading
\* rises by `step` per RIGHT up to `ceiling`, falls by `step` per LEFT down
\* to `floor`; every command succeeds and every read is well-formed
IdealDevice == [step |-> 10, ceiling |-> 255, floor |-> 0]

IdealStarts == {0, 100, 200, 250}

Min(a, b) == IF a <= b THEN a ELSE b
Max(a, b) == IF a >= b THEN a ELSE b

\* the device's screen_brightness after a key event
DevAfter(mode, d, direction) ==
    IF mode # "ideal" THEN d
    ELSE IF direction = "RIGHT" THEN Min(d + IdealDevice.step, IdealDevice.ceiling)
    ELSE IF direction = "LEFT" THEN Max(d - IdealDevice.step, IdealDevice.floor)
    ELSE d

\* the answers tried inside the larger operations: one of each kind of
\* response, and two different readings
CompositeResults ==
    { Str(<<>>), Str(<<"x">>), Str(<<SuperTwo>>),
      Bytes(<<"0", "\n">>), Str(<<"7">>), Fault }

\* the same for screen_off_timeout, with the readings 15000 and 30000
TimeoutResults ==
    { Str(<<>>), Str(<<"x">>), Str(<<SuperTwo>>),
      Bytes(<<"1", "5", "0", "0", "0", "\n">>),
      Str(<<"3", "0", "0", "0", "0">>), Fault }

\* the answers of a device whose setting holds the value d throughout: the
\* value itself, or a read that fails (empty, not a number, a raised fault)
ConstantResults(d) ==
    { Bytes(DecimalStr(d) \o <<"\n">>), Str(<<>>), Str(<<"x">>), Fault }

\* what the device may answer to a `settings get` query
DeviceResults ==
    IF devmode = "ideal"
    THEN {Bytes(DecimalStr(dev) \o <<"\n">>)}
    ELSE IF devmode = "constant" THEN ConstantResults(dev)
    ELSE IF op = "readback" THEN ShellResults
    ELSE IF op = "timeout" THEN TimeoutResults
    ELSE CompositeResults

\* whether a tap or key event may return (TRUE) or raise (FALSE)
ShellOks == IF devmode = "ideal" THEN {TRUE} ELSE BOOLEAN

Variants == {"common_utils", "test_timeout"}

\* entries of cmds: a shell command with whether it returned (ok) or raised,
\* and a time.sleep
Shell(command, ok) == [kind |-> "shell", arg |-> command, ok |-> ok]
Sleep(secs)        == [kind |-> "sleep", arg |-> <<"sleep", secs>>, ok |-> TRUE]

\* a query that writes the setting instead of reading it
PutCommand(key) == <<"settings put system", key>>

\* f"settings get system {key}"
GetCommand(key) == <<"settings get system", key>>

\* entry of cmds for a readback call made inside a larger operation
ReadbackCall(key) == [kind |-> "readback", arg |-> GetCommand(key), ok |-> TRUE]
TapCommand(key) == <<"input tap", key>>
KeyEvent(code)  == <<"input keyevent", code>>

NoOutcome == [kind |-> "none", val |-> 0, exc |-> "none"]
Return(v) == [kind |-> "return", val |-> v, exc |-> "none"]
Raise(e)  == [kind |-> "raise", val |-> 0, exc |-> e]

\* Python's None
None == <<>>

----------------------------------------------------------------------------
(* _get_brightness / _get_timeout: one loop iteration *)

\* the body of the try block for one value of ad.adb.shell
AttemptOutcome(result) ==
    IF result.type = "fault"
    THEN [kind |-> "except", val |-> 0, exc |-> "ShellError"]
    ELSE IF result.type = "bytes" /\ ~DecodeOk(result.body)
    THEN [kind |-> "except", val |-> 0, exc |-> "UnicodeDecodeError"]
    ELSE LET result_str == Strip(result.body) IN
         IF result_str = <<>> \/ result_str = NullStr
         THEN [kind |-> "continue", val |-> 0, exc |-> "none"]
         ELSE IF IsDigit(result_str)
         THEN IF IntParses(result_str)
              THEN [kind |-> "return", val |-> IntOf(result_str), exc |-> "none"]
              ELSE [kind |-> "except", val |-> 0, exc |-> "ValueError"]
         ELSE [kind |-> "nondigit", val |-> 0, exc |-> "none"]

\* the sentinel of line `return 0`
Sentinel == 0

\* `max_retries: int = 3`
DefaultMaxRetries == 3

\* `if attempt == max_retries - 1: raise`
IsLastAttempt(a, r) == a = r - 1

\* what one attempt adds to cmds: each query and each sleep(1) of a standalone
\* readback; inside a larger operation one entry per readback call, made at
\* its first query
ReadLog(result, slept) ==
    IF op = "readback"
    THEN cmds \o <<Shell(GetCommand(setting), result.type # "fault")>>
              \o (IF slept THEN <<Sleep(1)>> ELSE <<>>)
    ELSE IF attempt = 0
    THEN Append(cmds, ReadbackCall(setting))
    ELSE cmds

ReadAttempt ==
    /\ pc = "rb_loop"
    /\ attempt < max_retries
    /\ \E result \in DeviceResults :
         LET o == AttemptOutcome(result) IN
         /\ rb_log' = IF op = "readback" THEN Append(rb_log, result) ELSE rb_log
         /\ CASE o.kind = "return" ->
                   /\ cmds' = ReadLog(result, FALSE)
                   /\ rb_out' = Return(o.val)
                   /\ pc' = rb_ret
                   /\ UNCHANGED attempt
              [] o.kind = "continue" ->
                   /\ cmds' = ReadLog(result, FALSE)
                   /\ attempt' = attempt + 1
                   /\ UNCHANGED <<rb_out, pc>>
              [] o.kind = "nondigit" ->
                   /\ cmds' = ReadLog(result, TRUE)
                   /\ attempt' = attempt + 1
                   /\ UNCHANGED <<rb_out, pc>>
              [] o.kind = "except" ->
                   IF IsLastAttempt(attempt, max_retries)
                   THEN /\ cmds' = ReadLog(result, FALSE)
                        /\ rb_out' = Raise(o.exc)
                        /\ pc' = rb_ret
                        /\ UNCHANGED attempt
                   ELSE /\ cmds' = ReadLog(result, TRUE)
                        /\ attempt' = attempt + 1
                        /\ UNCHANGED <<rb_out, pc>>
    /\ UNCHANGED <<op, out, variant, coords, navvars, setting, max_retries, rb_ret,
                   rampvars, tovars, devvars, outervars>>

\* a loop that starts over instead of giving up
ReadExhaustedRestart ==
    /\ pc = "rb_loop"
    /\ attempt >= max_retries
    /\ attempt' = 0
    /\ UNCHANGED <<op, pc, out, cmds, variant, coords, navvars,
                   setting, max_retries, rb_log, rb_out, rb_ret,
                   rampvars, tovars, devvars, outervars>>

\* the loop ran out: `return 0`
ReadExhausted ==
    /\ pc = "rb_loop"
    /\ attempt >= max_retries
    /\ rb_out' = Return(Sentinel)
    /\ pc' = rb_ret
    /\ UNCHANGED <<op, out, cmds, variant, coords, navvars,
                   setting, max_retries, attempt, rb_log, rb_ret,
                   rampvars, tovars, devvars, outervars>>

\* the caller starts a readback `self._get_...()` that resumes at `site`
CallReadback(key, site) ==
    /\ setting' = key
    /\ max_retries' = DefaultMaxRetries
    /\ attempt' = 0
    /\ rb_out' = NoOutcome
    /\ rb_ret' = site
    /\ pc' = "rb_loop"
    /\ UNCHANGED rb_log

\* no readback has been called yet
ReadbackIdle ==
    /\ setting = "none"
    /\ max_retries = DefaultMaxRetries
    /\ attempt = 0
    /\ rb_log = <<>>
    /\ rb_out = NoOutcome
    /\ rb_ret = "none"

----------------------------------------------------------------------------
(* Navigation: _navigate_to_brightness_settings (common_utils) and
   _navigate_to_display_settings (test_timeout) *)

\* the coord_key column of `steps`
NavSteps(v) ==
    IF v = "common_utils"
    THEN <<"win_button", "settings", "display", "brightness">>
    ELSE <<"win_button", "settings", "display">>

\* the sleep after the tap of step k
NavWait(v, k) ==
    IF v = "common_utils"
    THEN (IF NavSteps(v)[k] = "brightness" THEN 2 ELSE 3)
    ELSE 2

\* coordinate names a configuration may define
CoordNames == {"win_button", "settings", "display", "brightness"}

\* the names execute_timeout_test looks up: the timeout entry and an option
TimeoutCoordNames == {"screen_timeout", "30_seconds"}

\* a lookup that falls back to a default, as dict.get(key, default) would
LookupAlwaysOk(map, key) == TRUE

\* self.coords[key] succeeds iff key is in the map, and raises KeyError otherwise
LookupOk(map, key) == key \in map

\* one iteration of `for step_name, coord_key in steps`
NavStep ==
    /\ pc = "nav"
    /\ step <= Len(NavSteps(variant))
    /\ LET coord_key == NavSteps(variant)[step] IN
       IF ~LookupOk(coords, coord_key)
       THEN /\ nav_out' = Raise("KeyError")
            /\ pc' = nav_ret
            /\ UNCHANGED <<cmds, step>>
       ELSE \E ok \in BOOLEAN :
              IF ok
              THEN /\ cmds' = cmds \o <<Shell(TapCommand(coord_key), TRUE),
                                        Sleep(NavWait(variant, step))>>
                   /\ step' = step + 1
                   /\ UNCHANGED <<nav_out, pc>>
              ELSE /\ cmds' = Append(cmds, Shell(TapCommand(coord_key), FALSE))
                   /\ nav_out' = Raise("ShellError")
                   /\ pc' = nav_ret
                   /\ UNCHANGED step
    /\ UNCHANGED <<op, out, variant, coords, nav_ret, rbvars, rampvars, tovars, devvars,
                   outervars>>

\* the loop is over: the function returns None
NavDone ==
    /\ pc = "nav"
    /\ step > Len(NavSteps(variant))
    /\ nav_out' = Return(None)
    /\ pc' = nav_ret
    /\ UNCHANGED <<op, out, cmds, variant, coords, step, nav_ret, rbvars,
                   rampvars, tovars, devvars, outervars>>

\* no navigation has been called yet
NavIdle ==
    /\ step = 1
    /\ nav_out = NoOutcome
    /\ nav_ret = "none"

\* no ramp has been started
RampIdle ==
    /\ right_presses = 0
    /\ left_presses = 0
    /\ i = 0
    /\ brightness_values = <<>>
    /\ initial_brightness = None
    /\ final_brightness = None
    /\ initial = 0
    /\ current_method_brightness = 0
    /\ dropped = 0

\* no timeout case has been started
TimeoutIdle ==
    /\ timeout_key = "none"
    /\ expected_ms = 0
    /\ wait_sec = 0
    /\ actual_ms = None
    /\ screen_off = FALSE

\* a device that may answer anything
AnyDevice ==
    /\ devmode = "any"
    /\ dev = 0

\* neither setup_test nor teardown_test has been called
SetupIdle ==
    /\ wake_attempt = 0
    /\ wake_out = NoOutcome
    /\ setup_out = NoOutcome
    /\ td_out = NoOutcome
    /\ screen_state = None

\* no test method and no suite run is under way
SuiteIdle ==
    /\ verdict = "none"
    /\ test_index = 1
    /\ returncodes = <<>>
    /\ report = <<>>
    /\ session_logs = <<>>
    /\ merged = <<>>
    /\ exit_code = None

\* a single navigation call, for any coordinate map
InitNav ==
    /\ op = "navigate"
    /\ pc = "nav"
    /\ out = NoOutcome
    /\ cmds = <<>>
    /\ variant \in Variants
    /\ coords \in SUBSET CoordNames
    /\ step = 1
    /\ nav_out = NoOutcome
    /\ nav_ret = "done"
    /\ ReadbackIdle
    /\ RampIdle
    /\ TimeoutIdle
    /\ AnyDevice
    /\ SetupIdle
    /\ SuiteIdle

NextNav == NavStep \/ NavDone

SpecNav == InitNav /\ [][NextNav]_vars

----------------------------------------------------------------------------
(* A single readback call, for any max_retries and either setting *)

InitReadback ==
    /\ op = "readback"
    /\ pc = "rb_loop"
    /\ out = NoOutcome
    /\ cmds = <<>>
    /\ variant \in Variants
    /\ coords = {}
    /\ NavIdle
    /\ setting \in (IF variant = "common_utils"
                     THEN {"screen_brightness"} ELSE SettingKeys)
    /\ max_retries \in 0..MaxRetries
    /\ attempt = 0
    /\ rb_log = <<>>
    /\ rb_out = NoOutcome
    /\ rb_ret = "done"
    /\ RampIdle
    /\ TimeoutIdle
    /\ AnyDevice
    /\ SetupIdle
    /\ SuiteIdle

NextReadback == ReadAttempt \/ ReadExhausted

SpecReadback == InitReadback /\ [][NextReadback]_vars

\* the same call in a running interpreter: the function is single-threaded
\* and every ad.adb.shell call and every sleep comes back, so a step that can
\* be taken is taken
SpecReadbackFair == SpecReadback /\ WF_vars(NextReadback)

----------------------------------------------------------------------------
(* execute_brightness_test: common_utils.py:151-202; test_timeout.py:248-280
   with _navigate_to_brightness_settings, _select_brightness_slider and
   _adjust_brightness_with_retry *)

\* `delay: float = 1.0`
DefaultDelay == 1

KeyRight == KeyEvent("KEYCODE_DPAD_RIGHT")
KeyLeft  == KeyEvent("KEYCODE_DPAD_LEFT")
\* a confirm that sends the RIGHT keycode
KeyEnterAsRight == KeyEvent("KEYCODE_DPAD_RIGHT")

KeyEnter == KeyEvent("KEYCODE_ENTER")

\* the operation raises: the exception leaves execute_brightness_test
RampRaise(e) ==
    /\ out' = Raise(e)
    /\ pc' = "done"

\* entry: common_utils reads the initial brightness at once; test_timeout
\* first taps the brightness entry (_navigate_to_brightness_settings)
BtBegin ==
    /\ pc = "bt_start"
    /\ IF variant = "common_utils"
       THEN /\ CallReadback("screen_brightness", "bt_initial")
            /\ UNCHANGED <<out, cmds>>
       ELSE IF ~LookupOk(coords, "brightness")
       THEN /\ RampRaise("KeyError")
            /\ UNCHANGED <<cmds, rbvars>>
       ELSE \E ok \in ShellOks :
              IF ok
              THEN /\ cmds' = cmds \o <<Shell(TapCommand("brightness"), TRUE), Sleep(3)>>
                   /\ CallReadback("screen_brightness", "bt_initial")
                   /\ UNCHANGED out
              ELSE /\ cmds' = Append(cmds, Shell(TapCommand("brightness"), FALSE))
                   /\ RampRaise("ShellError")
                   /\ UNCHANGED rbvars
    /\ UNCHANGED <<op, variant, coords, navvars, rampvars, tovars, devvars, outervars>>

\* what _select_brightness_slider adds to cmds; its exceptions are swallowed
SelectSliderLog(ok) ==
    IF ~LookupOk(coords, "brightness") THEN <<>>
    ELSE IF ok THEN <<Shell(TapCommand("brightness"), TRUE), Sleep(2)>>
    ELSE <<Shell(TapCommand("brightness"), FALSE)>>

\* self.initial_brightness = self._get_brightness(); test_timeout then selects
\* the slider and enters _adjust_brightness_with_retry
BtInitial ==
    /\ pc = "bt_initial"
    /\ IF rb_out.kind = "raise"
       THEN /\ RampRaise(rb_out.exc)
            /\ UNCHANGED <<cmds, rbvars, initial_brightness, brightness_values, i>>
       ELSE /\ initial_brightness' = <<rb_out.val>>
            /\ brightness_values' = <<>>
            /\ IF variant = "common_utils"
               THEN /\ pc' = "right_key"
                    /\ i' = 0
                    /\ UNCHANGED <<out, cmds, rbvars>>
               ELSE \E ok \in ShellOks :
                      /\ cmds' = cmds \o SelectSliderLog(ok)
                      /\ CallReadback("screen_brightness", "adj_initial")
                      /\ UNCHANGED <<out, i>>
    /\ UNCHANGED <<op, variant, coords, navvars, right_presses, left_presses,
                   final_brightness, initial, current_method_brightness, dropped,
                   tovars, devvars, outervars>>

\* test_timeout: `initial = self._get_brightness()` of _adjust_brightness_with_retry
AdjInitial ==
    /\ pc = "adj_initial"
    /\ IF rb_out.kind = "raise"
       THEN /\ RampRaise(rb_out.exc)
            /\ UNCHANGED <<initial, current_method_brightness, i>>
       ELSE /\ initial' = rb_out.val
            /\ current_method_brightness' = rb_out.val
            /\ i' = 0
            /\ pc' = "right_key"
            /\ UNCHANGED out
    /\ UNCHANGED <<op, cmds, variant, coords, navvars, rbvars, right_presses,
                   left_presses, brightness_values, initial_brightness,
                   final_brightness, dropped, tovars, devvars, outervars>>

\* a press loop that ends at the first key event that raises
PressEndingPhase(key, direction, site) ==
    /\ \E ok \in ShellOks :
         /\ dev' = IF ok THEN DevAfter(devmode, dev, direction) ELSE dev
         /\ IF ok
            THEN /\ cmds' = cmds \o <<Shell(key, TRUE), Sleep(DefaultDelay)>>
                 /\ CallReadback("screen_brightness", site)
                 /\ UNCHANGED <<i, dropped>>
            ELSE /\ cmds' = Append(cmds, Shell(key, FALSE))
                 /\ i' = IF direction = "RIGHT" THEN right_presses ELSE left_presses
                 /\ dropped' = dropped + 1
                 /\ UNCHANGED <<pc, rbvars>>
    /\ UNCHANGED <<op, out, variant, coords, navvars, right_presses, left_presses,
                   brightness_values, initial_brightness, final_brightness, initial,
                   current_method_brightness, tovars, devmode, outervars>>

\* the try block of a press loop up to the readback: key event, sleep(delay)
Press(key, direction, site) ==
    /\ \E ok \in ShellOks :
         /\ dev' = IF ok THEN DevAfter(devmode, dev, direction) ELSE dev
         /\ IF ok
            THEN /\ cmds' = cmds \o <<Shell(key, TRUE), Sleep(DefaultDelay)>>
                 /\ CallReadback("screen_brightness", site)
                 /\ UNCHANGED <<i, dropped>>
            ELSE /\ cmds' = Append(cmds, Shell(key, FALSE))
                 /\ i' = i + 1
                 /\ dropped' = dropped + 1
                 /\ UNCHANGED <<pc, rbvars>>
    /\ UNCHANGED <<op, out, variant, coords, navvars, right_presses, left_presses,
                   brightness_values, initial_brightness, final_brightness, initial,
                   current_method_brightness, tovars, devmode, outervars>>

\* a version that records no LEFT sample
AppendedRightOnly(values, direction, index, curr) ==
    IF direction = "LEFT" THEN values ELSE Append(values, <<direction, index, curr>>)

\* a version that records the loop variable i instead of i + 1
AppendedZeroBased(values, direction, index, curr) ==
    Append(values, <<direction, index - 1, curr>>)

\* brightness_values.append((direction, i + 1, curr))
Appended(values, direction, index, curr) == Append(values, <<direction, index, curr>>)

\* the rest of the try block: append the sample, or the except clause
Sample(direction, site) ==
    /\ IF rb_out.kind = "raise"
       THEN /\ dropped' = dropped + 1
            /\ UNCHANGED <<brightness_values, current_method_brightness>>
       ELSE /\ brightness_values' =
                  Appended(brightness_values, direction, i + 1, rb_out.val)
            /\ current_method_brightness' =
                  IF variant = "test_timeout" /\ direction = "RIGHT"
                  THEN rb_out.val ELSE current_method_brightness
            /\ UNCHANGED dropped
    /\ i' = i + 1
    /\ pc' = site
    /\ UNCHANGED <<op, out, cmds, variant, coords, navvars, rbvars, right_presses,
                   left_presses, initial_brightness, final_brightness, initial,
                   tovars, devvars, outervars>>

\* a loop that runs once more than `range(n)`
InRangeInclusive(k, n) == k <= n

\* `for i in range(n)`: the loop body runs for i = 0 .. n-1
InRange(k, n) == k < n

RightPress ==
    /\ pc = "right_key"
    /\ InRange(i, right_presses)
    /\ Press(KeyRight, "RIGHT", "right_read")

RightSample ==
    /\ pc = "right_read"
    /\ Sample("RIGHT", "right_key")

\* a version that runs the decrease phase unconditionally
DecreaseAlways(v, current, first) == TRUE

\* `if current_method_brightness != initial`: the decrease phase is entered
DecreaseEntered(v, current, first) == v = "common_utils" \/ current # first

\* the RIGHT loop is over
RightDone ==
    /\ pc = "right_key"
    /\ ~InRange(i, right_presses)
    /\ IF variant = "common_utils"
       THEN /\ cmds' = Append(cmds, Sleep(2))
            /\ i' = 0
            /\ pc' = "left_key"
            /\ UNCHANGED rbvars
       ELSE IF DecreaseEntered(variant, current_method_brightness, initial)
       THEN /\ i' = 0
            /\ pc' = "left_key"
            /\ UNCHANGED <<cmds, rbvars>>
       ELSE /\ CallReadback("screen_brightness", "adj_final")
            /\ UNCHANGED <<cmds, i>>
    /\ UNCHANGED <<op, out, variant, coords, navvars, right_presses, left_presses,
                   brightness_values, initial_brightness, final_brightness, initial,
                   current_method_brightness, dropped, tovars, devvars, outervars>>

LeftPress ==
    /\ pc = "left_key"
    /\ InRange(i, left_presses)
    /\ Press(KeyLeft, "LEFT", "left_read")

LeftSample ==
    /\ pc = "left_read"
    /\ Sample("LEFT", "left_key")

\* the LEFT loop is over: common_utils confirms with ENTER and reads the final
\* value; test_timeout evaluates `self._get_brightness()` of the return statement
LeftDone ==
    /\ pc = "left_key"
    /\ ~InRange(i, left_presses)
    /\ IF variant = "common_utils"
       THEN \E ok \in ShellOks :
              IF ok
              THEN /\ cmds' = cmds \o <<Shell(KeyEnter, TRUE), Sleep(3)>>
                   /\ CallReadback("screen_brightness", "bt_final")
                   /\ UNCHANGED out
              ELSE /\ cmds' = Append(cmds, Shell(KeyEnter, FALSE))
                   /\ RampRaise("ShellError")
                   /\ UNCHANGED rbvars
       ELSE /\ CallReadback("screen_brightness", "adj_final")
            /\ UNCHANGED <<out, cmds>>
    /\ UNCHANGED <<op, variant, coords, navvars, rampvars, tovars, devvars, outervars>>

\* test_timeout: _adjust_brightness_with_retry returns; sleep(2); final readback
AdjFinal ==
    /\ pc = "adj_final"
    /\ IF rb_out.kind = "raise"
       THEN /\ RampRaise(rb_out.exc)
            /\ UNCHANGED <<cmds, rbvars>>
       ELSE /\ cmds' = Append(cmds, Sleep(2))
            /\ CallReadback("screen_brightness", "bt_final")
            /\ UNCHANGED out
    /\ UNCHANGED <<op, variant, coords, navvars, rampvars, tovars, devvars, outervars>>

\* self.final_brightness = self._get_brightness(); return the triple
BtFinal ==
    /\ pc = "bt_final"
    /\ IF rb_out.kind = "raise"
       THEN /\ RampRaise(rb_out.exc)
            /\ UNCHANGED final_brightness
       ELSE /\ final_brightness' = <<rb_out.val>>
            /\ out' = Return(<<initial_brightness[1], rb_out.val, brightness_values>>)
            /\ pc' = "done"
    /\ UNCHANGED <<op, cmds, variant, coords, navvars, rbvars, right_presses,
                   left_presses, i, brightness_values, initial_brightness, initial,
                   current_method_brightness, dropped, tovars, devvars, outervars>>

\* largest press count of a ramp against a device that may answer anything
MaxPresses == 2

\* a ramp of either variant, any press counts, any device answers
InitRamp ==
    /\ op = "ramp"
    /\ pc = "bt_start"
    /\ out = NoOutcome
    /\ cmds = <<>>
    /\ variant \in Variants
    /\ coords \in {CoordNames, CoordNames \ {"brightness"}}
    /\ NavIdle
    /\ ReadbackIdle
    /\ right_presses \in 0..MaxPresses
    /\ left_presses \in 0..MaxPresses
    /\ i = 0
    /\ brightness_values = <<>>
    /\ initial_brightness = None
    /\ final_brightness = None
    /\ initial = 0
    /\ current_method_brightness = 0
    /\ dropped = 0
    /\ TimeoutIdle
    /\ AnyDevice
    /\ SetupIdle
    /\ SuiteIdle

NextRamp ==
    \/ BtBegin \/ BtInitial \/ AdjInitial
    \/ RightPress \/ RightSample \/ RightDone
    \/ LeftPress \/ LeftSample \/ LeftDone
    \/ AdjFinal \/ BtFinal
    \/ ReadAttempt \/ ReadExhausted

SpecRamp == InitRamp /\ [][NextRamp]_vars

\* BRIGHTNESS_TEST_PARAMS of test_brightness_adb.py
ParamRightPresses == 10
ParamLeftPresses == 10

\* the end-to-end scenario: common_utils' execute_brightness_test with
\* BRIGHTNESS_TEST_PARAMS against the scripted device, from several start values
InitIdeal ==
    /\ op = "ramp"
    /\ pc = "bt_start"
    /\ out = NoOutcome
    /\ cmds = <<>>
    /\ variant = "common_utils"
    /\ coords = CoordNames
    /\ NavIdle
    /\ ReadbackIdle
    /\ right_presses = ParamRightPresses
    /\ left_presses = ParamLeftPresses
    /\ i = 0
    /\ brightness_values = <<>>
    /\ initial_brightness = None
    /\ final_brightness = None
    /\ initial = 0
    /\ current_method_brightness = 0
    /\ dropped = 0
    /\ TimeoutIdle
    /\ devmode = "ideal"
    /\ dev \in IdealStarts
    /\ SetupIdle
    /\ SuiteIdle

NextIdeal ==
    \/ BtBegin \/ BtInitial
    \/ RightPress \/ RightSample \/ RightDone
    \/ LeftPress \/ LeftSample \/ LeftDone
    \/ BtFinal
    \/ ReadAttempt

SpecIdeal == InitIdeal /\ [][NextIdeal]_vars

\* the values the unchanging setting is given
ConstantStarts == {0, 7}

\* common_utils' execute_brightness_test against a device on which the key
\* presses have no effect: the setting holds `dev` from start to end, reads
\* may fail and key events may raise
InitConstant ==
    /\ op = "ramp"
    /\ pc = "bt_start"
    /\ out = NoOutcome
    /\ cmds = <<>>
    /\ variant = "common_utils"
    /\ coords = CoordNames
    /\ NavIdle
    /\ ReadbackIdle
    /\ right_presses \in 0..MaxPresses
    /\ left_presses \in 0..MaxPresses
    /\ i = 0
    /\ brightness_values = <<>>
    /\ initial_brightness = None
    /\ final_brightness = None
    /\ initial = 0
    /\ current_method_brightness = 0
    /\ dropped = 0
    /\ TimeoutIdle
    /\ devmode = "constant"
    /\ dev \in ConstantStarts
    /\ SetupIdle
    /\ SuiteIdle

NextConstant ==
    \/ BtBegin \/ BtInitial
    \/ RightPress \/ RightSample \/ RightDone
    \/ LeftPress \/ LeftSample \/ LeftDone
    \/ BtFinal
    \/ ReadAttempt \/ ReadExhausted

SpecConstant == InitConstant /\ [][NextConstant]_vars

----------------------------------------------------------------------------
(* execute_timeout_test with _navigate_to_timeout_settings, _get_timeout,
   _is_screen_off and _wake_up_device_simple: test_timeout.py *)

Asleep == <<"A", "s", "l", "e", "e", "p">>
Awake  == <<"A", "w", "a", "k", "e">>
WakefulnessIs == <<"m", "W", "a", "k", "e", "f", "u", "l", "n", "e", "s", "s", "=">>

PowerQuery == <<"dumpsys power | grep mWakefulness">>

\* what the device may answer to the power-state query
PowerResults ==
    { Bytes(<<" ", " ">> \o WakefulnessIs \o Asleep \o <<"\n">>),
      Bytes(<<" ", " ">> \o WakefulnessIs \o Awake \o <<"\n">>),
      Str(WakefulnessIs \o Asleep),
      Bytes(<<BadByte>> \o WakefulnessIs \o Asleep),
      Str(<<>>),
      Fault }

\* bytes.decode("utf-8", errors="ignore"): invalid bytes are dropped
DecodeIgnore(body) == SelectSeq(body, LAMBDA c : c # BadByte)

\* `sub in s`
IsSubstring(sub, s) ==
    \E k \in 0..(Len(s) - Len(sub)) : SubSeq(s, k + 1, k + Len(sub)) = sub

\* _is_screen_off for one answer of the device; a fault is caught: False
IsScreenOff(result) ==
    IF result.type = "fault" THEN FALSE
    ELSE IsSubstring(Asleep, IF result.type = "bytes"
                             THEN DecodeIgnore(result.body) ELSE result.body)

\* a wake-up that stops after two commands
WakeCommandsShort ==
    <<KeyEvent("KEYCODE_WAKEUP"), KeyEvent("KEYCODE_MENU")>>

\* `commands` of _wake_up_device_simple
WakeCommands ==
    <<KeyEvent("KEYCODE_WAKEUP"), KeyEvent("KEYCODE_MENU"), KeyEvent("KEYCODE_WAKEUP")>>

RECURSIVE WakeLog(_, _, _)
\* what `for cmd in commands: shell(cmd); sleep(1)` adds to cmds from command
\* k on, when command `failAt` raises (0: none does); the except clause ends it
WakeLog(commands, k, failAt) ==
    IF k > Len(commands) THEN <<>>
    ELSE IF k = failAt THEN <<Shell(commands[k], FALSE)>>
    ELSE <<Shell(commands[k], TRUE), Sleep(1)>> \o WakeLog(commands, k + 1, failAt)

\* a comparison that never reports a mismatch
MismatchNever(actual, expected) == FALSE

\* `if actual_ms != expected_ms`
Mismatch(actual, expected) == actual # expected

\* a window that admits wait_sec = 0
InVerifyWindowFromZero(w) == w >= 0 /\ w <= 60

\* `if wait_sec > 0 and wait_sec <= 60`
InVerifyWindow(w) == w > 0 /\ w <= 60

\* a re-wake made whatever the screen state
WakeAlways(off) == TRUE

\* `if self._is_screen_off():` guards the re-wake
WakeNeeded(off) == off

\* the outer `except Exception`: the case returns False
ToFail ==
    /\ out' = Return(FALSE)
    /\ pc' = "done"

\* _navigate_to_timeout_settings: tap the screen timeout entry, sleep(3)
ToNavigate ==
    /\ pc = "to_start"
    /\ IF ~LookupOk(coords, "screen_timeout")
       THEN /\ ToFail
            /\ UNCHANGED cmds
       ELSE \E ok \in ShellOks :
              IF ok
              THEN /\ cmds' = cmds \o <<Shell(TapCommand("screen_timeout"), TRUE), Sleep(3)>>
                   /\ pc' = "to_select"
                   /\ UNCHANGED out
              ELSE /\ cmds' = Append(cmds, Shell(TapCommand("screen_timeout"), FALSE))
                   /\ ToFail
    /\ UNCHANGED <<op, variant, coords, navvars, rbvars, rampvars, tovars, devvars, outervars>>

\* tap the option, sleep(2), then `actual_ms = self._get_timeout()`
ToSelect ==
    /\ pc = "to_select"
    /\ IF ~LookupOk(coords, timeout_key)
       THEN /\ ToFail
            /\ UNCHANGED <<cmds, rbvars>>
       ELSE \E ok \in ShellOks :
              IF ok
              THEN /\ cmds' = cmds \o <<Shell(TapCommand(timeout_key), TRUE), Sleep(2)>>
                   /\ CallReadback("screen_off_timeout", "to_read")
                   /\ UNCHANGED out
              ELSE /\ cmds' = Append(cmds, Shell(TapCommand(timeout_key), FALSE))
                   /\ ToFail
                   /\ UNCHANGED rbvars
    /\ UNCHANGED <<op, variant, coords, navvars, rampvars, tovars, devvars, outervars>>

\* the readback is back: compare, then wait for the screen-off check or skip it
ToCompare ==
    /\ pc = "to_read"
    /\ IF rb_out.kind = "raise"
       THEN /\ ToFail
            /\ UNCHANGED <<cmds, actual_ms>>
       ELSE /\ actual_ms' = <<rb_out.val>>
            /\ IF Mismatch(rb_out.val, expected_ms)
               THEN /\ ToFail
                    /\ UNCHANGED cmds
               ELSE IF InVerifyWindow(wait_sec)
               THEN /\ cmds' = Append(cmds, Sleep(wait_sec))
                    /\ pc' = "to_query"
                    /\ UNCHANGED out
               ELSE /\ out' = Return(TRUE)
                    /\ pc' = "done"
                    /\ UNCHANGED cmds
    /\ UNCHANGED <<op, variant, coords, navvars, rbvars, rampvars, timeout_key,
                   expected_ms, wait_sec, screen_off, devvars, outervars>>

\* `if self._is_screen_off(): self._wake_up_device_simple()`, then return True
ToQuery ==
    /\ pc = "to_query"
    /\ \E result \in PowerResults, failAt \in 0..Len(WakeCommands) :
         /\ screen_off' = IsScreenOff(result)
         /\ cmds' = cmds \o <<Shell(PowerQuery, result.type # "fault")>>
                         \o (IF WakeNeeded(IsScreenOff(result))
                             THEN WakeLog(WakeCommands, 1, failAt) ELSE <<>>)
    /\ out' = Return(TRUE)
    /\ pc' = "done"
    /\ UNCHANGED <<op, variant, coords, navvars, rbvars, rampvars, timeout_key,
                   expected_ms, wait_sec, actual_ms, devvars, outervars>>

\* the wait_sec values tried: the default 0, inside the window, its upper
\* edge, and just beyond it
WaitChoices == {0, 35, 60, 61}

\* one timeout case, for any coordinate map, expectation and wait
InitTimeout ==
    /\ op = "timeout"
    /\ pc = "to_start"
    /\ out = NoOutcome
    /\ cmds = <<>>
    /\ variant = "test_timeout"
    /\ coords \in {CoordNames \cup T : T \in SUBSET TimeoutCoordNames}
    /\ NavIdle
    /\ ReadbackIdle
    /\ RampIdle
    /\ timeout_key = "30_seconds"
    /\ expected_ms \in {15000, 30000}
    /\ wait_sec \in WaitChoices
    /\ actual_ms = None
    /\ screen_off = FALSE
    /\ AnyDevice
    /\ SetupIdle
    /\ SuiteIdle

NextTimeout ==
    \/ ToNavigate \/ ToSelect \/ ToCompare \/ ToQuery
    \/ ReadAttempt \/ ReadExhausted

SpecTimeout == InitTimeout /\ [][NextTimeout]_vars

----------------------------------------------------------------------------
(* setup_test and teardown_test of both variants, with _wake_up_device
   (common_utils.py) and _wake_up_device_simple (test_timeout.py) *)

DisplayQuery == <<"dumpsys power | grep 'Display Power'">>

StateIs == <<"s", "t", "a", "t", "e", "=">>

\* what the device may answer to the display-power query
DisplayResults ==
    { Bytes(StateIs \o <<"O", "N", "\n">>),
      Str(StateIs \o <<"O", "F", "F">>),
      Str(StateIs \o <<"o", "n">>),
      Bytes(<<BadByte>> \o StateIs \o <<"O", "N">>),
      Str(<<>>),
      Fault }

\* str.upper() on the letters the answers are made of
UpperChar(c) ==
    CASE c = "a" -> "A" [] c = "e" -> "E" [] c = "n" -> "N"
      [] c = "o" -> "O" [] c = "s" -> "S" [] c = "t" -> "T"
      [] OTHER -> c

Upper(text) == [k \in 1..Len(text) |-> UpperChar(text[k])]

\* a wake-up that takes any answer it can decode for a lit display
WakeOutcomeAnyAnswer(result) ==
    IF result.type = "fault"
    THEN [kind |-> "except", exc |-> "ShellError"]
    ELSE IF result.type = "bytes" /\ ~DecodeOk(result.body)
    THEN [kind |-> "except", exc |-> "UnicodeDecodeError"]
    ELSE [kind |-> "on", exc |-> "none"]

\* the part of the try block of _wake_up_device after the query returned:
\* decode, strip, `"ON" in screen_state.upper()`
WakeOutcome(result) ==
    IF result.type = "fault"
    THEN [kind |-> "except", exc |-> "ShellError"]
    ELSE IF result.type = "bytes" /\ ~DecodeOk(result.body)
    THEN [kind |-> "except", exc |-> "UnicodeDecodeError"]
    ELSE IF IsSubstring(<<"O", "N">>, Upper(Strip(result.body)))
    THEN [kind |-> "on", exc |-> "none"]
    ELSE [kind |-> "off", exc |-> "none"]

\* the local `screen_state` after an attempt: assigned when the query returned
\* and its answer could be decoded, left as it was otherwise
Assigned(old, failAt, result) ==
    IF failAt > 0 \/ result.type = "fault" THEN old
    ELSE IF result.type = "bytes" /\ ~DecodeOk(result.body) THEN old
    ELSE <<Strip(result.body)>>

\* `max_retries: int = 3` of _wake_up_device
WakeMaxRetries == 3

\* what one attempt of _wake_up_device adds to cmds when its command number
\* failAt raises (0: neither key event does, and the query is made)
WakeAttemptLog(failAt, result) ==
    IF failAt = 1 THEN <<Shell(KeyEvent("KEYCODE_WAKEUP"), FALSE)>>
    ELSE IF failAt = 2
    THEN <<Shell(KeyEvent("KEYCODE_WAKEUP"), TRUE), Sleep(1),
           Shell(KeyEvent("KEYCODE_MENU"), FALSE)>>
    ELSE <<Shell(KeyEvent("KEYCODE_WAKEUP"), TRUE), Sleep(1),
           Shell(KeyEvent("KEYCODE_MENU"), TRUE), Sleep(2),
           Shell(DisplayQuery, result.type # "fault")>>

\* setup_test returns v
SetupReturn(v) ==
    /\ setup_out' = Return(v)
    /\ pc' = IF op = "workflow" THEN "wf_after_setup" ELSE "done"

\* setup_test is entered and calls the wake-up of its variant
SetupBegin ==
    /\ pc = "su_start"
    /\ wake_attempt' = 0
    /\ wake_out' = NoOutcome
    /\ screen_state' = None
    /\ pc' = "wake"
    /\ UNCHANGED <<op, out, cmds, variant, coords, navvars, rbvars, rampvars, tovars,
                   devvars, setup_out, td_out, suitevars>>

\* one iteration of the loop of _wake_up_device
WakeAttempt ==
    /\ pc = "wake"
    /\ variant = "common_utils"
    /\ InRange(wake_attempt, WakeMaxRetries)
    /\ \E failAt \in 0..2, result \in DisplayResults :
         LET o == IF failAt > 0
                  THEN [kind |-> "except", exc |-> "ShellError"]
                  ELSE WakeOutcome(result)
             log == WakeAttemptLog(failAt, result)
         IN  /\ screen_state' = Assigned(screen_state, failAt, result)
             /\ CASE o.kind = "on" ->
                      /\ cmds' = cmds \o log
                      /\ wake_out' = Return(TRUE)
                      /\ pc' = "su_after_wake"
                      /\ UNCHANGED wake_attempt
                 [] o.kind = "off" ->
                      /\ cmds' = cmds \o log
                      /\ wake_attempt' = wake_attempt + 1
                      /\ UNCHANGED <<wake_out, pc>>
                 [] o.kind = "except" ->
                      IF IsLastAttempt(wake_attempt, WakeMaxRetries)
                      THEN /\ cmds' = cmds \o log
                           /\ wake_out' = Raise(o.exc)
                           /\ pc' = "su_after_wake"
                           /\ UNCHANGED wake_attempt
                      ELSE /\ cmds' = cmds \o log \o <<Sleep(2)>>
                           /\ wake_attempt' = wake_attempt + 1
                           /\ UNCHANGED <<wake_out, pc>>
    /\ UNCHANGED <<op, out, variant, coords, navvars, rbvars, rampvars, tovars,
                   devvars, setup_out, td_out, suitevars>>

\* the loop of _wake_up_device ran out: `return False`
WakeExhausted ==
    /\ pc = "wake"
    /\ variant = "common_utils"
    /\ ~InRange(wake_attempt, WakeMaxRetries)
    /\ wake_out' = Return(FALSE)
    /\ pc' = "su_after_wake"
    /\ UNCHANGED <<op, out, cmds, variant, coords, navvars, rbvars, rampvars, tovars,
                   devvars, wake_attempt, setup_out, td_out, suitevars,
                   screen_state>>

\* _wake_up_device_simple: the three key events, False at the first that raises
WakeSimple ==
    /\ pc = "wake"
    /\ variant = "test_timeout"
    /\ \E failAt \in 0..Len(WakeCommands) :
         /\ cmds' = cmds \o WakeLog(WakeCommands, 1, failAt)
         /\ wake_out' = Return(failAt = 0)
    /\ pc' = "su_after_wake"
    /\ UNCHANGED <<op, out, variant, coords, navvars, rbvars, rampvars, tovars,
                   devvars, wake_attempt, setup_out, td_out, suitevars,
                   screen_state>>

\* a setup that navigates whatever the wake-up returned
ProceedsAlways(v, w) == TRUE

\* common_utils: `if not self._wake_up_device(): return False`, and a raise
\* goes to the except clause; test_timeout ignores the value of the call
Proceeds(v, w) == v = "test_timeout" \/ w = Return(TRUE)

\* the wake-up is over: give up, or start the navigation
SetupAfterWake ==
    /\ pc = "su_after_wake"
    /\ IF Proceeds(variant, wake_out)
       THEN /\ step' = 1
            /\ nav_out' = NoOutcome
            /\ nav_ret' = "su_after_nav"
            /\ pc' = "nav"
            /\ UNCHANGED setup_out
       ELSE /\ SetupReturn(FALSE)
            /\ UNCHANGED navvars
    /\ screen_state' = None
    /\ UNCHANGED <<op, out, cmds, variant, coords, rbvars, rampvars, tovars,
                   devvars, wake_attempt, wake_out, td_out, suitevars>>

\* a setup that lets the exception of the navigation leave setup_test
SetupResultPropagating(o) == o

\* `return True` after the navigation; `except Exception: return False`
SetupResult(o) == IF o.kind = "return" THEN Return(TRUE) ELSE Return(FALSE)

\* the navigation is over
SetupAfterNav ==
    /\ pc = "su_after_nav"
    /\ setup_out' = SetupResult(nav_out)
    /\ pc' = IF op = "workflow" THEN "wf_after_setup" ELSE "done"
    /\ UNCHANGED <<op, out, cmds, variant, coords, navvars, rbvars, rampvars, tovars,
                   devvars, wake_attempt, wake_out, td_out, suitevars,
                   screen_state>>

KeyHome == KeyEvent("KEYCODE_HOME")

\* teardown_test returns None, also from its except clause
TeardownReturn ==
    /\ td_out' = Return(None)
    /\ pc' = "done"

\* HOME, sleep(2); common_utils then reads the brightness for the log
TeardownHome ==
    /\ pc = "td_start"
    /\ \E ok \in ShellOks :
         IF ok
         THEN /\ cmds' = cmds \o <<Shell(KeyHome, TRUE), Sleep(2)>>
              /\ IF variant = "common_utils"
                 THEN /\ CallReadback("screen_brightness", "td_read")
                      /\ UNCHANGED td_out
                 ELSE /\ TeardownReturn
                      /\ UNCHANGED rbvars
         ELSE /\ cmds' = Append(cmds, Shell(KeyHome, FALSE))
              /\ TeardownReturn
              /\ UNCHANGED rbvars
    /\ UNCHANGED <<op, out, variant, coords, navvars, rampvars, tovars, devvars,
                   wake_attempt, wake_out, setup_out, suitevars,
                   screen_state>>

\* the readback of teardown_test is back: its value or exception is only logged
TeardownRead ==
    /\ pc = "td_read"
    /\ TeardownReturn
    /\ UNCHANGED <<op, out, cmds, variant, coords, navvars, rbvars, rampvars, tovars,
                   devvars, wake_attempt, wake_out, setup_out, suitevars,
                   screen_state>>

\* setup_test of either variant, for any coordinate map
InitSetup ==
    /\ op = "setup"
    /\ pc = "su_start"
    /\ out = NoOutcome
    /\ cmds = <<>>
    /\ variant \in Variants
    /\ coords \in SUBSET CoordNames
    /\ NavIdle
    /\ ReadbackIdle
    /\ RampIdle
    /\ TimeoutIdle
    /\ AnyDevice
    /\ SetupIdle
    /\ SuiteIdle

NextSetup ==
    \/ SetupBegin \/ WakeAttempt \/ WakeExhausted \/ WakeSimple
    \/ SetupAfterWake \/ SetupAfterNav
    \/ NavStep \/ NavDone

SpecSetup == InitSetup /\ [][NextSetup]_vars

\* teardown_test of either variant
InitTeardown ==
    /\ op = "teardown"
    /\ pc = "td_start"
    /\ out = NoOutcome
    /\ cmds = <<>>
    /\ variant \in Variants
    /\ coords = CoordNames
    /\ NavIdle
    /\ ReadbackIdle
    /\ RampIdle
    /\ TimeoutIdle
    /\ AnyDevice
    /\ SetupIdle
    /\ SuiteIdle

\* every operation a DisplayTestManager exposes, each called once on a fresh
\* manager: setup_test, execute_brightness_test, execute_timeout_test and
\* teardown_test
InitManager == InitSetup \/ InitRamp \/ InitTimeout \/ InitTeardown

NextManager ==
    \/ SetupBegin \/ WakeAttempt \/ WakeExhausted \/ WakeSimple
    \/ SetupAfterWake \/ SetupAfterNav
    \/ NavStep \/ NavDone
    \/ BtBegin \/ BtInitial \/ AdjInitial
    \/ RightPress \/ RightSample \/ RightDone
    \/ LeftPress \/ LeftSample \/ LeftDone
    \/ AdjFinal \/ BtFinal
    \/ ToNavigate \/ ToSelect \/ ToCompare \/ ToQuery
    \/ TeardownHome \/ TeardownRead
    \/ ReadAttempt \/ ReadExhausted

SpecManager == InitManager /\ [][NextManager]_vars

----------------------------------------------------------------------------
(* test_display_settings_workflow: test_brightness_adb.py:33-62 *)

\* the keys of DisplaySettingsTest.COORDINATES
Coordinates == {"win_button", "settings", "display", "brightness"}

\* press counts used for the workflow against a device that may answer
\* anything, in place of the ten of BRIGHTNESS_TEST_PARAMS
WorkflowPresses == 1

\* create_display_test(self.ad, self.COORDINATES), then setup_test is called
WorkflowBegin ==
    /\ pc = "wf_start"
    /\ coords' = Coordinates
    /\ pc' = "su_start"
    /\ UNCHANGED <<op, out, cmds, variant, navvars, rbvars, rampvars, tovars, devvars,
                   outervars>>

\* the test fails: asserts.fail, also from the except clause
WorkflowFail ==
    /\ verdict' = "fail"
    /\ pc' = "wf_done"

\* `if not self.test_manager.setup_test(): asserts.fail(...)`, else
\* execute_brightness_test(**self.BRIGHTNESS_TEST_PARAMS) is called
WorkflowAfterSetup ==
    /\ pc = "wf_after_setup"
    /\ IF setup_out = Return(TRUE)
       THEN /\ right_presses' = IF devmode = "ideal"
                                THEN ParamRightPresses ELSE WorkflowPresses
            /\ left_presses' = IF devmode = "ideal"
                               THEN ParamLeftPresses ELSE WorkflowPresses
            /\ pc' = "bt_start"
            /\ UNCHANGED verdict
       ELSE /\ WorkflowFail
            /\ UNCHANGED <<right_presses, left_presses>>
    /\ UNCHANGED <<op, out, cmds, variant, coords, navvars, rbvars, i, brightness_values,
                   initial_brightness, final_brightness, initial,
                   current_method_brightness, dropped, tovars, devvars, setupvars,
                   test_index, returncodes, report, session_logs, merged, exit_code>>

\* an assertion that accepts any pair of values
ChangedAlways(first, last) == TRUE

\* asserts.assert_true(initial != final, ...)
Changed(first, last) == first # last

\* execute_brightness_test is over: a raise reaches the except clause, a
\* returned triple goes through the assertion
WorkflowVerdict ==
    /\ op = "workflow"
    /\ pc = "done"
    /\ IF out.kind = "return" /\ Changed(out.val[1], out.val[2])
       THEN /\ verdict' = "pass"
            /\ pc' = "wf_done"
       ELSE WorkflowFail
    /\ UNCHANGED <<op, out, cmds, variant, coords, navvars, rbvars, rampvars, tovars,
                   devvars, setupvars, test_index, returncodes, report, session_logs,
                   merged, exit_code>>

\* the test method is called on a device that answers anything, or on the
\* scripted one
InitWorkflow ==
    /\ op = "workflow"
    /\ pc = "wf_start"
    /\ out = NoOutcome
    /\ cmds = <<>>
    /\ variant = "common_utils"
    /\ coords = {}
    /\ NavIdle
    /\ ReadbackIdle
    /\ RampIdle
    /\ TimeoutIdle
    /\ devmode \in {"any", "ideal"}
    /\ dev \in (IF devmode = "ideal" THEN IdealStarts ELSE {0})
    /\ SetupIdle
    /\ SuiteIdle

NextWorkflow ==
    \/ WorkflowBegin \/ WorkflowAfterSetup \/ WorkflowVerdict
    \/ SetupBegin \/ WakeAttempt \/ WakeExhausted
    \/ SetupAfterWake \/ SetupAfterNav
    \/ NavStep \/ NavDone
    \/ BtBegin \/ BtInitial
    \/ RightPress \/ RightSample \/ RightDone
    \/ LeftPress \/ LeftSample \/ LeftDone
    \/ BtFinal
    \/ ReadAttempt \/ ReadExhausted

SpecWorkflow == InitWorkflow /\ [][NextWorkflow]_vars

----------------------------------------------------------------------------
(* run_display_tests.py: main *)

\* `test_files`
TestFiles == <<"src/test_timeout.py", "src/test_brightness_adb.py">>

\* the two glob patterns main watches for new log files
LogPatterns == {"display_brightness_test", "screen_timeout_test"}

\* process.returncode after process.wait(): 0, an exit status, or minus the
\* number of the signal that ended the process
ReturnCodes == {0, 1, -15}

\* the line printed for a test process
ReportLine(returncode) == IF returncode = 0 THEN "PASSED" ELSE "FAILED"

\* the exit status of the script when main() returns: main returns None and
\* nothing calls sys.exit, whatever the return codes were
ExitStatus(codes) == 0

\* one iteration of `for test_file in test_files`: run the test process, wait
\* for it, note its newest new log and print PASSED or FAILED; an exception of
\* subprocess.Popen is not caught and ends the script with status 1
SuiteRunTest ==
    /\ pc = "suite_loop"
    /\ test_index <= Len(TestFiles)
    /\ \E started \in BOOLEAN :
         IF ~started
         THEN /\ exit_code' = <<1>>
              /\ pc' = "exited"
              /\ UNCHANGED <<test_index, returncodes, report, session_logs>>
         ELSE \E returncode \in ReturnCodes, new_logs \in SUBSET LogPatterns :
                /\ returncodes' = Append(returncodes, returncode)
                /\ report' = Append(report, ReportLine(returncode))
                /\ IF new_logs = {}
                   THEN UNCHANGED session_logs
                   ELSE \E latest_log \in new_logs :
                          session_logs' = Append(session_logs, <<latest_log, test_index>>)
                /\ test_index' = test_index + 1
                /\ UNCHANGED <<pc, exit_code>>
    /\ UNCHANGED <<op, out, cmds, variant, coords, navvars, rbvars, rampvars, tovars,
                   devvars, setupvars, verdict, merged>>

\* after the loop: merge the session's logs, a log that has gone missing being
\* noted in the merged file; then main returns
SuiteMerge ==
    /\ pc = "suite_loop"
    /\ test_index > Len(TestFiles)
    /\ \E found \in [1..Len(session_logs) -> BOOLEAN] :
         merged' = [k \in 1..Len(session_logs) |->
                       [file |-> session_logs[k], found |-> found[k]]]
    /\ exit_code' = <<ExitStatus(returncodes)>>
    /\ pc' = "exited"
    /\ UNCHANGED <<op, out, cmds, variant, coords, navvars, rbvars, rampvars, tovars,
                   devvars, setupvars, verdict, test_index, returncodes, report,
                   session_logs>>

\* the script is started
InitSuite ==
    /\ op = "suite"
    /\ pc = "suite_loop"
    /\ out = NoOutcome
    /\ cmds = <<>>
    /\ variant = "none"
    /\ coords = {}
    /\ NavIdle
    /\ ReadbackIdle
    /\ RampIdle
    /\ TimeoutIdle
    /\ AnyDevice
    /\ SetupIdle
    /\ SuiteIdle

NextSuite == SuiteRunTest \/ SuiteMerge

SpecSuite == InitSuite /\ [][NextSuite]_vars

----------------------------------------------------------------------------
(* The responses as the specification classifies them *)

\* "numeric, non-empty" responses, with the reading each one denotes
NumericReading ==
    [r \in {Bytes(<<"0", "\n">>), Str(<<"7">>), Bytes(<<"1", "2", "\n">>)} |->
        CASE r = Bytes(<<"0", "\n">>) -> 0
          [] r = Str(<<"7">>) -> 7
          [] r = Bytes(<<"1", "2", "\n">>) -> 12]

NumericResults == DOMAIN NumericReading

\* empty, "null" and non-numeric (garbled) responses
TransientResults == SettingResults \ NumericResults

ReadbackEnded == op = "readback" /\ pc = "done"

SomeAttemptNumeric == \E k \in 1..Len(rb_log) : rb_log[k] \in NumericResults

OnlyTransientSeen == \A k \in 1..Len(rb_log) : rb_log[k] \in TransientResults

----------------------------------------------------------------------------
(* Claims about the readback *)

\* C1 (as stated): a readback with max_retries >= 1 in which some attempt made
\* yields a numeric, non-empty response returns an integer other than the
\* sentinel 0.
C1_NumericGivesNonSentinel ==
    (ReadbackEnded /\ max_retries >= 1 /\ SomeAttemptNumeric)
        => (rb_out.kind = "return" /\ rb_out.val # Sentinel)

\* C1 (amended): a readback with max_retries >= 1 in which some attempt made
\* yields a numeric, non-empty response returns the integer that response
\* denotes; the result differs from the sentinel 0 exactly when that reading
\* is not zero.
C1_NumericGivesReading ==
    (ReadbackEnded /\ max_retries >= 1)
        => \A k \in 1..Len(rb_log) :
              rb_log[k] \in NumericResults
                 => /\ rb_out.kind = "return"
                    /\ rb_out.val = NumericReading[rb_log[k]]
                    /\ (rb_out.val # Sentinel <=> NumericReading[rb_log[k]] # 0)

\* a numeric response on the third attempt, after two failed ones, is returned
C1_Witness ==
    /\ ReadbackEnded
    /\ Len(rb_log) = 3
    /\ rb_log[1] = Fault
    /\ rb_log[2] \in TransientResults
    /\ rb_log[3] = Bytes(<<"1", "2", "\n">>)
    /\ rb_out = Return(12)

\* C2: a readback whose attempts all yield a transient response (empty,
\* "null" or non-numeric text) and no command fault never raises, for any
\* max_retries >= 0; it ends by returning the sentinel 0.
C2_TransientNeverRaises ==
    OnlyTransientSeen
        => /\ rb_out.kind # "raise"
           /\ ReadbackEnded => rb_out = Return(Sentinel)

\* C3: a readback raises if and only if its final attempt (attempt number
\* max_retries) is a command fault; a fault on an earlier attempt is followed
\* by a further attempt, and a transient response on the final attempt never
\* causes a raise.
C3_RaisesIffFinalFault ==
    ReadbackEnded
        => /\ rb_out.kind = "raise"
                <=> (Len(rb_log) = max_retries /\ max_retries >= 1
                        /\ rb_log[max_retries] = Fault)
           /\ \A k \in 1..Len(rb_log) :
                 (rb_log[k] = Fault /\ k < max_retries) => Len(rb_log) > k

----------------------------------------------------------------------------
(* Claims about navigation *)

\* the taps issued so far, by coordinate name
RECURSIVE TapsOf(_)
TapsOf(log) ==
    IF log = <<>> THEN <<>>
    ELSE IF Head(log).kind = "shell" /\ Head(log).arg[1] = "input tap"
    THEN <<Head(log).arg[2]>> \o TapsOf(Tail(log))
    ELSE TapsOf(Tail(log))

\* the step order the specification configures
ConfiguredOrder ==
    IF variant = "common_utils"
    THEN <<"win_button", "settings", "display", "brightness">>
    ELSE <<"win_button", "settings", "display">>

IsPrefix(a, b) == Len(a) <= Len(b) /\ SubSeq(b, 1, Len(a)) = a

NavEnded == op = "navigate" /\ pc = "done"

\* C4: the navigation sequencer issues its taps in exactly the configured step
\* order (win_button, settings, display, then brightness where present); the
\* first time a step's coordinate name is missing from the map it aborts, and
\* no tap is issued for that step or for any later step.
C4_NavInOrderAbortOnMissing ==
    op = "navigate"
        => /\ IsPrefix(TapsOf(cmds), ConfiguredOrder)
           /\ \A k \in 1..Len(ConfiguredOrder) :
                 ConfiguredOrder[k] \notin coords
                    => /\ Len(TapsOf(cmds)) < k
                       /\ NavEnded => nav_out.kind = "raise"
           /\ (NavEnded /\ nav_out.kind = "return")
                 => TapsOf(cmds) = ConfiguredOrder

\* the display step is missing: two taps were issued, then the lookup aborted
C4_Witness ==
    /\ NavEnded
    /\ variant = "common_utils"
    /\ coords = {"win_button", "settings", "brightness"}
    /\ TapsOf(cmds) = <<"win_button", "settings">>
    /\ nav_out = Raise("KeyError")

----------------------------------------------------------------------------
(* Claims about the brightness ramp *)

RampReturned == op = "ramp" /\ pc = "done" /\ out.kind = "return"

\* the trace the ramp returned
ReturnedTrace == out.val[3]

\* the decrease phase ran: always in common_utils, and in test_timeout when the
\* increase phase was seen to change the value
DecreaseExecuted ==
    variant = "common_utils" \/ current_method_brightness # initial

ExpectedSamples ==
    IF DecreaseExecuted THEN right_presses + left_presses ELSE right_presses

\* C5 (as stated): for every sequence of device responses, the returned trace
\* has right_presses + left_presses entries when both phases execute and
\* exactly right_presses entries when the decrease phase is skipped.
C5_TraceLengthExact ==
    RampReturned => Len(ReturnedTrace) = ExpectedSamples

\* C5 (amended): the returned trace has one entry for every press whose key
\* event and following readback both completed without raising; its length is
\* right_presses + left_presses (right_presses when the decrease phase is
\* skipped) less the number of presses that raised, so the stated lengths
\* hold exactly in the runs where no press raises.
C5_TraceLengthLessDropped ==
    RampReturned
        => /\ Len(ReturnedTrace) + dropped = ExpectedSamples
           /\ dropped = 0 => Len(ReturnedTrace) = ExpectedSamples
           /\ dropped > 0 => Len(ReturnedTrace) < ExpectedSamples

\* both phases ran with two presses each and one press raised: three samples
C5_Witness ==
    /\ RampReturned
    /\ variant = "test_timeout"
    /\ right_presses = 2 /\ left_presses = 2
    /\ current_method_brightness # initial
    /\ dropped = 1
    /\ Len(ReturnedTrace) = 3
    /\ ReturnedTrace[3][1] = "LEFT"

\* the decrease phase was skipped and the trace holds the RIGHT samples only
C5_WitnessSkipped ==
    /\ RampReturned
    /\ variant = "test_timeout"
    /\ right_presses = 2 /\ left_presses = 2
    /\ current_method_brightness = initial
    /\ dropped = 0
    /\ Len(ReturnedTrace) = 2

ScenarioEnded ==
    /\ op = "ramp" /\ pc = "done" /\ devmode = "ideal"
    /\ right_presses = 10 /\ left_presses = 10
    /\ initial_brightness = <<100>>

\* C6 (as stated): with right_presses = 10, left_presses = 10 and the scripted
\* device starting at 100 (+10 per RIGHT up to 255, -10 per LEFT down to 0, no
\* read failures) execute_brightness_test returns a trace of 20 entries with
\* initial value 100 and final value 155, so initial != final.
C6_ScenarioFinal155 ==
    ScenarioEnded
        => /\ out.kind = "return"
           /\ out.val[1] = 100
           /\ out.val[2] = 155
           /\ Len(out.val[3]) = 20
           /\ out.val[1] # out.val[2]

\* C6 (amended): in that scenario execute_brightness_test returns a trace of
\* 20 entries with initial value 100 and final value 100: ten RIGHT presses
\* reach 200, below the ceiling, and ten LEFT presses come back to 100, so
\* initial = final and the test's initial != final assertion fails.
C6_ScenarioFinal100 ==
    ScenarioEnded
        => /\ out.kind = "return"
           /\ out.val[1] = 100
           /\ out.val[2] = 100
           /\ Len(out.val[3]) = 20
           /\ out.val[3][10] = <<"RIGHT", 10, 200>>
           /\ out.val[3][20] = <<"LEFT", 10, 100>>
           /\ out.val[1] = out.val[2]

\* the scenario ran to its end from the start value 100
C6_Witness ==
    /\ ScenarioEnded
    /\ out.kind = "return"
    /\ Len(out.val[3]) = 20
    /\ dev = 100

----------------------------------------------------------------------------
(* Claims about execute_timeout_test *)

TimeoutEnded == op = "timeout" /\ pc = "done"

IsPowerQuery(e) == e.kind = "shell" /\ e.arg = <<"dumpsys power | grep mWakefulness">>

\* the sleep-state query was made
VerificationPerformed == \E k \in 1..Len(cmds) : IsPowerQuery(cmds[k])

QueryIndex == CHOOSE k \in 1..Len(cmds) : IsPowerQuery(cmds[k])

\* the shell commands issued after the sleep-state query
ShellAfterQuery ==
    SelectSeq(SubSeq(cmds, QueryIndex + 1, Len(cmds)), LAMBDA e : e.kind = "shell")

ArgsOf(log) == [k \in 1..Len(log) |-> log[k].arg]

\* the wake-up key events the specification names
ClaimedWake ==
    << <<"input keyevent", "KEYCODE_WAKEUP">>,
       <<"input keyevent", "KEYCODE_MENU">>,
       <<"input keyevent", "KEYCODE_WAKEUP">> >>

\* the timeout was read back and equals expected_ms
ReadbackMatched == actual_ms = <<expected_ms>>

\* the timeout was read back and differs from expected_ms
ReadbackMismatched == actual_ms # None /\ actual_ms # <<expected_ms>>

\* C7: when the timeout read back after tapping the option differs from
\* expected_ms, the case returns False without raising, and neither the
\* screen-off wait nor the sleep-state query is performed for it.
C7_MismatchReturnsFalse ==
    (op = "timeout" /\ ReadbackMismatched)
        => /\ pc = "done"
           /\ out = Return(FALSE)
           /\ ~VerificationPerformed
           /\ cmds[Len(cmds)].kind = "readback"
           /\ \A k \in 1..Len(cmds) : cmds[k] # Sleep(wait_sec)

\* a readback of 15000 against an expectation of 30000 with a wait of 35
C7_Witness ==
    /\ TimeoutEnded
    /\ actual_ms = <<15000>>
    /\ expected_ms = 30000
    /\ wait_sec = 35
    /\ out = Return(FALSE)

\* C8 (as stated): with a wait in (0, 60] and a matching readback, if the
\* sleep-state query reports the device asleep, the wake-up key events WAKEUP,
\* MENU, WAKEUP are issued after the query and before the return, and the
\* function returns True.
C8_AsleepAllWakeIssued ==
    (TimeoutEnded /\ wait_sec > 0 /\ wait_sec <= 60 /\ ReadbackMatched /\ screen_off)
        => /\ ArgsOf(ShellAfterQuery) = ClaimedWake
           /\ out = Return(TRUE)

\* C8 (amended): in that case the wake-up sequence is started after the query
\* and before the return: WAKEUP, MENU, WAKEUP are issued in this order up to
\* and including the first one that raises, all three when none raises, and
\* the function returns True either way.
C8_AsleepWakeUntilFault ==
    (TimeoutEnded /\ wait_sec > 0 /\ wait_sec <= 60 /\ ReadbackMatched /\ screen_off)
        => LET w == ShellAfterQuery IN
           /\ Len(w) >= 1
           /\ IsPrefix(ArgsOf(w), ClaimedWake)
           /\ \A k \in 1..(Len(w) - 1) : w[k].ok
           /\ w[Len(w)].ok => Len(w) = 3
           /\ out = Return(TRUE)

\* the device was asleep after 35 s and the three wake-up events went through
C8_Witness ==
    /\ TimeoutEnded
    /\ wait_sec = 35
    /\ ReadbackMatched
    /\ screen_off
    /\ ArgsOf(ShellAfterQuery) = ClaimedWake
    /\ \A k \in 1..3 : ShellAfterQuery[k].ok
    /\ out = Return(TRUE)

\* C9 (as stated): whenever the screen-off verification is performed, the
\* wake-up key events are issued before the return, whether the device is
\* found asleep or the screen is found still on.
C9_WakeRegardless ==
    (TimeoutEnded /\ VerificationPerformed)
        => /\ Len(ShellAfterQuery) >= 1
           /\ ShellAfterQuery[1].arg = ClaimedWake[1]

\* C9 (amended): when the screen-off verification is performed, the wake-up
\* key events are issued before the return only if the device was found
\* asleep; when the screen is found still on, or the state query raises, no
\* command is issued after the query.
C9_WakeOnlyWhenAsleep ==
    (TimeoutEnded /\ VerificationPerformed)
        => /\ screen_off => (Len(ShellAfterQuery) >= 1
                               /\ ShellAfterQuery[1].arg = ClaimedWake[1])
           /\ ~screen_off => (ShellAfterQuery = <<>> /\ QueryIndex = Len(cmds))
           /\ ~cmds[QueryIndex].ok => ~screen_off

\* the screen was found still on: the query is the last thing issued
C9_Witness ==
    /\ TimeoutEnded
    /\ VerificationPerformed
    /\ cmds[QueryIndex].ok
    /\ ~screen_off
    /\ QueryIndex = Len(cmds)
    /\ out = Return(TRUE)

\* C10: the sleep-state verification (wait, then query) is performed if and
\* only if the readback matched and 0 < wait_sec <= 60, and its outcome never
\* changes the result: with a matching readback the case returns True
\* whether the screen is found off, found on, or the query raises.
C10_VerifyWindowLogOnly ==
    TimeoutEnded
        => /\ VerificationPerformed
                <=> (ReadbackMatched /\ 0 < wait_sec /\ wait_sec <= 60)
           /\ VerificationPerformed
                => (QueryIndex > 1 /\ cmds[QueryIndex - 1] = Sleep(wait_sec))
           /\ ReadbackMatched => out = Return(TRUE)
           /\ out = Return(TRUE) => ReadbackMatched

\* the state query raised after a wait of 60 s and the case still passed
C10_Witness ==
    /\ TimeoutEnded
    /\ wait_sec = 60
    /\ ReadbackMatched
    /\ VerificationPerformed
    /\ ~cmds[QueryIndex].ok
    /\ out = Return(TRUE)

\* a wait of 61 s: no verification, the case passes on the readback alone
C10_WitnessBeyondWindow ==
    /\ TimeoutEnded
    /\ wait_sec = 61
    /\ ReadbackMatched
    /\ ~VerificationPerformed
    /\ out = Return(TRUE)

----------------------------------------------------------------------------
(* Claims about the backoff inside the readback *)

IsRead(e) == e.kind = "shell" /\ e.arg[1] = "settings get system"

\* the number of read commands among the first k entries of cmds
ReadsBefore(k) == Len(SelectSeq(SubSeq(cmds, 1, k), IsRead))

\* C15: within a readback, every retry that follows a transient failure (an
\* empty or "null" response, or a non-numeric one) is preceded by the fixed
\* 1-second backoff: the next read command is issued only after the sleep.
C15_RetryAfterBackoff ==
    op = "readback"
        => \A k \in 2..Len(cmds) :
              (IsRead(cmds[k]) /\ rb_log[ReadsBefore(k - 1)] \in TransientResults)
                 => cmds[k - 1] = Sleep(1)

----------------------------------------------------------------------------
(* Claims about the order of the ramp and its trace *)

IsKey(e, key) == e.kind = "shell" /\ e.arg = key

\* how many times the key event was issued, whether it returned or raised
KeyCount(key) == Len(SelectSeq(cmds, LAMBDA e : IsKey(e, key)))

\* the values of the RIGHT samples recorded in the trace
RightSampleValues ==
    LET rs == SelectSeq(brightness_values, LAMBDA s : s[1] = "RIGHT")
    IN  [k \in 1..Len(rs) |-> rs[k][3]]

\* the value the increase phase saw last: its last recorded RIGHT sample, or
\* the initial value when it recorded none
LastSeen ==
    IF RightSampleValues = <<>> THEN initial
    ELSE RightSampleValues[Len(RightSampleValues)]

AdjustReturned == RampReturned /\ variant = "test_timeout"

\* C16 (as stated): in _adjust_brightness_with_retry the decrease phase is
\* skipped exactly when every value sampled after a RIGHT press equals the
\* initial value; if any RIGHT sample differs from the initial value, all
\* left_presses LEFT key events are issued.
C16_SkippedIffNoSampleDiffers ==
    AdjustReturned
        => LET changed == \E k \in 1..Len(RightSampleValues) :
                              RightSampleValues[k] # initial
           IN  /\ changed => KeyCount(KeyLeft) = left_presses
               /\ ~changed => KeyCount(KeyLeft) = 0

\* C16 (amended): in _adjust_brightness_with_retry the decrease phase is
\* skipped exactly when the last value sampled after a RIGHT press (the
\* initial value when no RIGHT sample was recorded) equals the initial value;
\* if that last sample differs from the initial value, all left_presses LEFT
\* key events are issued, otherwise none is.
C16_SkippedIffLastSampleEqual ==
    AdjustReturned
        => /\ LastSeen # initial => KeyCount(KeyLeft) = left_presses
           /\ LastSeen = initial => KeyCount(KeyLeft) = 0

\* a RIGHT sample differed from the initial value, the last one equalled it
\* again, and the decrease phase was skipped
C16_Witness ==
    /\ AdjustReturned
    /\ right_presses = 2 /\ left_presses = 2
    /\ initial = 0
    /\ RightSampleValues = <<7, 0>>
    /\ KeyCount(KeyLeft) = 0

\* the decrease phase ran after a change seen on the last RIGHT sample
C16_WitnessDecrease ==
    /\ AdjustReturned
    /\ right_presses = 2 /\ left_presses = 2
    /\ initial = 0
    /\ RightSampleValues = <<0, 7>>
    /\ KeyCount(KeyLeft) = 2

\* positions of cmds holding the key event, whether it returned or raised
KeyPositions(key) == {k \in 1..Len(cmds) : IsKey(cmds[k], key)}

Precedes(P, Q) == \A j \in P, k \in Q : j < k

\* the ramp returned and its last device interaction was the final readback
FinalReadbackLast ==
    RampReturned
        => /\ cmds # <<>>
           /\ cmds[Len(cmds)].kind = "readback"
           /\ \A k \in 1..Len(cmds) : cmds[k].kind = "shell" => k < Len(cmds)

\* C17 (as stated): in execute_brightness_test the commands follow the order:
\* all RIGHT key events, then the confirm (ENTER) key event when it is
\* issued, then all LEFT key events, then the final readback; no LEFT key
\* event precedes the confirm and no RIGHT key event follows a LEFT one.
C17_ConfirmBetweenPhases ==
    op = "ramp"
        => /\ Precedes(KeyPositions(KeyRight), KeyPositions(KeyEnter))
           /\ Precedes(KeyPositions(KeyEnter), KeyPositions(KeyLeft))
           /\ Precedes(KeyPositions(KeyRight), KeyPositions(KeyLeft))
           /\ FinalReadbackLast

\* C17 (amended): in execute_brightness_test the commands follow the order:
\* all RIGHT key events, then all LEFT key events, then the confirm (ENTER)
\* key event when it is issued, then the final readback; no RIGHT key event
\* follows a LEFT one and no LEFT or RIGHT key event follows the confirm,
\* which is issued at most once and only after all left_presses LEFT events.
C17_ConfirmAfterBothPhases ==
    op = "ramp"
        => /\ Precedes(KeyPositions(KeyRight), KeyPositions(KeyLeft))
           /\ Precedes(KeyPositions(KeyLeft), KeyPositions(KeyEnter))
           /\ Precedes(KeyPositions(KeyRight), KeyPositions(KeyEnter))
           /\ Cardinality(KeyPositions(KeyEnter)) <= 1
           /\ KeyPositions(KeyEnter) # {}
                 => /\ variant = "common_utils"
                    /\ KeyCount(KeyRight) = right_presses
                    /\ KeyCount(KeyLeft) = left_presses
           /\ FinalReadbackLast

\* two RIGHT, two LEFT, then ENTER, then the final readback
C17_Witness ==
    /\ RampReturned
    /\ variant = "common_utils"
    /\ KeyPositions(KeyRight) # {} /\ KeyPositions(KeyLeft) # {}
    /\ KeyCount(KeyRight) = 2 /\ KeyCount(KeyLeft) = 2
    /\ \E e \in KeyPositions(KeyEnter) :
          /\ \A k \in KeyPositions(KeyLeft) : k < e
          /\ cmds[e].ok
    /\ cmds[Len(cmds)] = ReadbackCall("screen_brightness")

\* the trace lists RIGHT samples, then LEFT samples, each group with strictly
\* increasing step indices within its press count
TraceOrdered ==
    LET t == brightness_values IN
    /\ \A k \in 1..Len(t) :
          \/ t[k][1] = "RIGHT" /\ t[k][2] \in 1..right_presses
          \/ t[k][1] = "LEFT" /\ t[k][2] \in 1..left_presses
    /\ \A j \in 1..Len(t), k \in 1..Len(t) :
          j < k => /\ ~(t[j][1] = "LEFT" /\ t[k][1] = "RIGHT")
                   /\ t[j][1] = t[k][1] => t[j][2] < t[k][2]

KeyOf(direction) == IF direction = "RIGHT" THEN KeyRight ELSE KeyLeft

\* a step that extends the trace appends one sample whose value is what the
\* readback just returned, that readback being the last thing issued and
\* directly following the sample's own key event and its delay
SampleIsReadbackAfterPress ==
    brightness_values' # brightness_values
        => /\ Len(brightness_values') = Len(brightness_values) + 1
           /\ SubSeq(brightness_values', 1, Len(brightness_values)) = brightness_values
           /\ LET s == brightness_values'[Len(brightness_values')]
                  n == Len(cmds)
              IN  /\ rb_out.kind = "return"
                  /\ s[3] = rb_out.val
                  /\ s[2] = KeyCount(KeyOf(s[1]))
                  /\ n >= 3
                  /\ cmds[n] = ReadbackCall("screen_brightness")
                  /\ cmds[n - 1] = Sleep(DefaultDelay)
                  /\ cmds[n - 2] = Shell(KeyOf(s[1]), TRUE)
                  /\ cmds' = cmds

\* C20: the returned trace is ordered: it consists of the RIGHT samples with
\* strictly increasing step indices within 1..right_presses, followed by the
\* LEFT samples with strictly increasing step indices within 1..left_presses;
\* no RIGHT sample appears after a LEFT sample, and each sample's value is the
\* readback taken after that press and before the next key event.
C20_TraceOrdered ==
    /\ [](op = "ramp" => TraceOrdered)
    /\ [](RampReturned => ReturnedTrace = brightness_values)
    /\ [][op = "ramp" => SampleIsReadbackAfterPress]_vars

\* a returned trace with a RIGHT sample of step 2 followed by two LEFT samples
C20_Witness ==
    /\ RampReturned
    /\ right_presses = 2 /\ left_presses = 2
    /\ dropped = 1
    /\ ReturnedTrace = << <<"RIGHT", 2, 7>>, <<"LEFT", 1, 0>>, <<"LEFT", 2, 7>> >>

----------------------------------------------------------------------------
(* Claims about what a readback touches *)

\* an entry a readback may add to cmds: its `settings get system <key>` query
\* (or the entry standing for the call inside a larger operation), or a sleep
IsQueryOrSleep(e) ==
    \/ e.kind \in {"shell", "readback"} /\ e.arg = <<"settings get system", setting>>
    \/ e.kind = "sleep"

\* a step of the readback loop
ReadbackStepFrame ==
    pc = "rb_loop"
        => /\ initial_brightness' = initial_brightness
           /\ final_brightness' = final_brightness
           /\ coords' = coords
           /\ Len(cmds') >= Len(cmds)
           /\ SubSeq(cmds', 1, Len(cmds)) = cmds
           /\ \A k \in (Len(cmds) + 1)..Len(cmds') : IsQueryOrSleep(cmds'[k])

\* C19: a readback has no side effects on the device or on the manager: it
\* issues only `settings get system <key>` commands (no tap, key event or
\* settings write) and leaves initial_brightness, final_brightness and the
\* coordinate map unchanged.
C19_ReadbackNoSideEffects == [][ReadbackStepFrame]_vars

\* a readback made after initial_brightness was set has returned, its query
\* being the last entry of cmds
C19_Witness ==
    /\ op = "ramp"
    /\ pc = "right_read"
    /\ rb_out = Return(7)
    /\ initial_brightness = <<0>>
    /\ coords = CoordNames
    /\ cmds[Len(cmds)] = ReadbackCall("screen_brightness")

----------------------------------------------------------------------------
(* Claims about lookup failures and command faults *)

SetupEnded == op = "setup" /\ pc = "done"

\* setup_test ended after a coordinate name of a navigation step was missing
SetupLookupFailed == SetupEnded /\ nav_out = Raise("KeyError")

\* execute_brightness_test ended and its lookup of "brightness" had failed
RampLookupFailed ==
    op = "ramp" /\ pc = "done" /\ variant = "test_timeout" /\ "brightness" \notin coords

\* execute_timeout_test ended after the lookup of the timeout entry failed, or
\* after the entry was tapped and the lookup of the option failed
TimeoutLookupFailed ==
    /\ TimeoutEnded
    /\ \/ "screen_timeout" \notin coords
       \/ timeout_key \notin coords /\ cmds # <<>> /\ cmds[1].ok

\* C11 (as stated): a lookup failure (a coordinate or timeout-option name not
\* in the map) propagates immediately to the caller as a fault from every
\* exposed operation that performs the lookup (setup_test,
\* execute_brightness_test, execute_timeout_test); it is never turned into an
\* ordinary return value.
C11_LookupFailurePropagates ==
    /\ SetupLookupFailed => setup_out = Raise("KeyError")
    /\ RampLookupFailed => out = Raise("KeyError")
    /\ TimeoutLookupFailed => out = Raise("KeyError")

\* C11 (amended): a lookup failure ends the operation at once, no command
\* being issued for the missing name or after it; it leaves
\* execute_brightness_test as a fault, while setup_test and
\* execute_timeout_test catch it and return False.
C11_LookupFailureEndsOperation ==
    /\ SetupLookupFailed
          => /\ setup_out = Return(FALSE)
             /\ IsPrefix(TapsOf(cmds), ConfiguredOrder)
             /\ Len(TapsOf(cmds)) < Len(ConfiguredOrder)
             /\ ConfiguredOrder[Len(TapsOf(cmds)) + 1] \notin coords
             /\ \A k \in 1..Len(cmds) : cmds[k].arg[1] = "input tap" => cmds[k].ok
    /\ RampLookupFailed
          => /\ out = Raise("KeyError")
             /\ cmds = <<>>
    /\ TimeoutLookupFailed
          => /\ out = Return(FALSE)
             /\ "screen_timeout" \notin coords => cmds = <<>>
             /\ "screen_timeout" \in coords
                   => cmds = << Shell(<<"input tap", "screen_timeout">>, TRUE), Sleep(3) >>

\* setup_test of common_utils with no "display" entry: two taps, then False
C11_Witness ==
    /\ SetupLookupFailed
    /\ variant = "common_utils"
    /\ coords = {"win_button", "settings", "brightness"}
    /\ TapsOf(cmds) = <<"win_button", "settings">>
    /\ setup_out = Return(FALSE)

\* execute_timeout_test with no entry for the option: False after one tap
C11_WitnessTimeout ==
    /\ TimeoutLookupFailed
    /\ "screen_timeout" \in coords
    /\ Len(cmds) = 2
    /\ out = Return(FALSE)

\* execute_brightness_test of test_timeout with no "brightness" entry raises
C11_WitnessRamp ==
    /\ RampLookupFailed
    /\ out = Raise("KeyError")

\* entry k of cmds is a device command that raised (the queries a readback
\* makes inside a larger operation are not entered one by one)
FaultAt(k) == cmds[k].kind = "shell" /\ ~cmds[k].ok

NoCommandAfter(k) == \A j \in (k + 1)..Len(cmds) : cmds[j].kind = "sleep"

OpEnded == op \in {"setup", "ramp", "timeout", "teardown"} /\ pc = "done"

\* how the exposed operation ended
Outcome ==
    CASE op = "setup" -> setup_out
      [] op = "teardown" -> td_out
      [] OTHER -> out

IsWakeCommand(a) ==
    a \in {<<"input keyevent", "KEYCODE_WAKEUP">>, <<"input keyevent", "KEYCODE_MENU">>,
           <<"dumpsys power | grep 'Display Power'">>}

\* the number of the wake-up attempt entry k belongs to (common_utils)
WakeAttemptOf(k) ==
    Len(SelectSeq(SubSeq(cmds, 1, k),
                  LAMBDA e : e.arg = <<"input keyevent", "KEYCODE_WAKEUP">>))

\* a faulting tap of a navigation or option step ends the operation: setup_test
\* and execute_timeout_test return False, execute_brightness_test raises
TapFaultEnds(k) ==
    /\ k = Len(cmds)
    /\ pc = "done" => Outcome = IF op = "ramp" THEN Raise("ShellError") ELSE Return(FALSE)

\* a faulting slider tap is absorbed: the ramp goes on with a readback
SliderFaultAbsorbed(k) ==
    pc = "done" => (k < Len(cmds) /\ cmds[k + 1].kind = "readback")

\* a faulting RIGHT or LEFT key event costs that press only: unless it was the
\* last press of its phase, the next press is still issued
PressFaultAbsorbed(k, key, presses) ==
    /\ k < Len(cmds) => cmds[k + 1] # Sleep(DefaultDelay)
    /\ (pc = "done" /\ Len(SelectSeq(SubSeq(cmds, 1, k), LAMBDA e : IsKey(e, key))) < presses)
          => \E j \in (k + 1)..Len(cmds) : IsKey(cmds[j], key)

\* a fault inside _wake_up_device ends that attempt; it is retried after
\* sleep(2) unless it was the last attempt, whose fault makes setup_test
\* return False with nothing further issued
WakeFaultRetried(k) ==
    IF WakeAttemptOf(k) < 3
    THEN /\ k < Len(cmds) /\ cmds[k + 1] = Sleep(2)
         /\ Len(cmds) > k + 1 => cmds[k + 2].arg = <<"input keyevent", "KEYCODE_WAKEUP">>
         /\ pc = "done" => Len(cmds) > k + 1
    ELSE /\ k = Len(cmds)
         /\ pc = "done" => setup_out = Return(FALSE)

\* a fault inside _wake_up_device_simple ends the key events: setup_test goes
\* on to navigate, execute_timeout_test returns True
WakeSimpleFaultAbsorbed(k) ==
    /\ \A j \in (k + 1)..Len(cmds) : ~IsWakeCommand(cmds[j].arg)
    /\ op = "timeout" => (k = Len(cmds) /\ out = Return(TRUE))
    /\ (op = "setup" /\ pc = "done" /\ "win_button" \in coords)
          => (k < Len(cmds) /\ cmds[k + 1].arg = <<"input tap", "win_button">>)

C12_WitnessTap ==
    /\ SetupEnded
    /\ FaultAt(Len(cmds))
    /\ cmds[Len(cmds)].arg = <<"input tap", "settings">>
    /\ setup_out = Return(FALSE)

\* MENU raised on the second attempt of _wake_up_device and a third followed
C12_WitnessWake ==
    /\ SetupEnded
    /\ variant = "common_utils"
    /\ \E k \in 1..Len(cmds) :
          /\ cmds[k] = Shell(<<"input keyevent", "KEYCODE_MENU">>, FALSE)
          /\ WakeAttemptOf(k) = 2
          /\ WakeAttemptOf(Len(cmds)) = 3
    /\ setup_out = Return(TRUE)

\* how many times the command was issued, whether it returned or raised
CommandCount(a) == Len(SelectSeq(cmds, LAMBDA e : e.kind = "shell" /\ e.arg = a))

TapNames == {"win_button", "settings", "display", "brightness", "screen_timeout",
             "30_seconds"}

\* the taps one invocation makes of a name: execute_brightness_test of
\* test_timeout taps "brightness" in its navigation step and in its slider step
TapsAllowed(name) ==
    IF op = "ramp" /\ variant = "test_timeout" /\ name = "brightness" THEN 2 ELSE 1

EachTapOnce ==
    \A name \in TapNames : CommandCount(<<"input tap", name>>) <= TapsAllowed(name)

WakeupKey == <<"input keyevent", "KEYCODE_WAKEUP">>
MenuKey == <<"input keyevent", "KEYCODE_MENU">>
DisplayPowerQuery == <<"dumpsys power | grep 'Display Power'">>

\* the wake-up sequence WAKEUP, MENU, WAKEUP of test_timeout, run once
WakeSimpleOnce ==
    variant = "test_timeout"
        => /\ CommandCount(WakeupKey) <= 2
           /\ CommandCount(MenuKey) <= 1

\* C18 (as stated): retries exist only inside the readback: no other
\* operation re-issues a device command after a failed or unsatisfactory
\* attempt, and each wake-up command and each navigation or option tap is
\* issued at most once per invocation of its operation.
C18_RetriesOnlyInReadback ==
    /\ EachTapOnce
    /\ WakeSimpleOnce
    /\ variant = "common_utils"
          => /\ CommandCount(WakeupKey) <= 1
             /\ CommandCount(MenuKey) <= 1
             /\ CommandCount(DisplayPowerQuery) <= 1

\* C18 (amended): retries exist inside the readback and inside
\* _wake_up_device, which re-issues WAKEUP, MENU and the display-power query
\* after an attempt that raised or did not find the display ON, for at most
\* three attempts; no other operation re-issues a device command: each
\* navigation or option tap, HOME, and the key events of
\* _wake_up_device_simple are issued at most once per invocation.
C18_RetriesInReadbackAndWake ==
    /\ EachTapOnce
    /\ WakeSimpleOnce
    /\ CommandCount(<<"input keyevent", "KEYCODE_HOME">>) <= 1
    /\ CommandCount(<<"input keyevent", "KEYCODE_ENTER">>) <= 1
    /\ variant = "common_utils"
          => /\ CommandCount(WakeupKey) <= 3
             /\ CommandCount(MenuKey) <= CommandCount(WakeupKey)
             /\ CommandCount(DisplayPowerQuery) <= CommandCount(MenuKey)
             /\ wake_out = Return(TRUE) => CommandCount(DisplayPowerQuery) >= 1

\* _wake_up_device found the display ON only on its third attempt
C18_Witness ==
    /\ SetupEnded
    /\ variant = "common_utils"
    /\ CommandCount(WakeupKey) = 3
    /\ CommandCount(MenuKey) = 3
    /\ CommandCount(DisplayPowerQuery) = 3
    /\ wake_out = Return(TRUE)
    /\ setup_out = Return(TRUE)

----------------------------------------------------------------------------
(* Claims about the test method and the suite runner *)

WorkflowEnded == op = "workflow" /\ pc = "wf_done"

\* execute_brightness_test was called and returned its triple
BrightnessTestReturned == out.kind = "return"

\* C13: test_display_settings_workflow passes if and only if setup_test
\* returned True, execute_brightness_test returned without a fault, and the
\* returned initial value differs from the returned final value; when
\* setup_test returns False the test fails and no RIGHT or LEFT key event is
\* ever issued.
C13_PassIffSetupRampAndChange ==
    op = "workflow"
        => /\ WorkflowEnded
                 => (verdict = "pass"
                        <=> /\ setup_out = Return(TRUE)
                            /\ BrightnessTestReturned
                            /\ out.val[1] # out.val[2])
           /\ WorkflowEnded => verdict \in {"pass", "fail"}
           /\ ~WorkflowEnded => verdict = "none"
           /\ setup_out = Return(FALSE)
                 => /\ KeyCount(KeyRight) = 0
                    /\ KeyCount(KeyLeft) = 0
                    /\ out = NoOutcome
                    /\ WorkflowEnded => verdict = "fail"

\* the test passed: setup succeeded and the readings 0 and 7 differ
C13_Witness ==
    /\ WorkflowEnded
    /\ verdict = "pass"
    /\ setup_out = Return(TRUE)
    /\ out.kind = "return"
    /\ out.val[1] = 0 /\ out.val[2] = 7
    /\ KeyCount(KeyRight) = 1

\* setup_test returned False after a navigation tap raised: the test failed
C13_WitnessSetupFailed ==
    /\ WorkflowEnded
    /\ verdict = "fail"
    /\ setup_out = Return(FALSE)
    /\ nav_out = Raise("ShellError")

\* the scripted device from 100 with ten presses each way: initial = final
C13_WitnessUnchanged ==
    /\ WorkflowEnded
    /\ verdict = "fail"
    /\ devmode = "ideal"
    /\ out.kind = "return"
    /\ out.val[1] = 100 /\ out.val[2] = 100

\* main ran every test process and the script has exited
SuiteEnded == op = "suite" /\ pc = "exited" /\ Len(returncodes) = 2

EveryTestPassed == \A k \in 1..Len(returncodes) : returncodes[k] = 0

\* C14: the suite entry point exits with code 0 when every invoked test
\* process passed and with a non-zero code when at least one of them failed.
C14_ExitCodeReflectsResults ==
    SuiteEnded => (exit_code = <<0>> <=> EveryTestPassed)

----------------------------------------------------------------------------
(* Claims about termination and about the outcome of whole runs *)

\* the read commands issued by the readback so far
ReadCount == Len(SelectSeq(cmds, IsRead))

\* a numeric response is the last one: nothing is read after it
NumericIsLastRead ==
    \A k \in 1..Len(rb_log) :
       rb_log[k] \in NumericResults
          => /\ k = Len(rb_log)
             /\ ReadCount = k
             /\ ReadbackEnded

\* C21: a readback called with max_retries = r always terminates (returns or
\* raises) provided each device command returns; it issues at most r read
\* commands, and issues no further read command after the first numeric
\* response.
C21_ReadbackTerminates ==
    /\ <>(ReadbackEnded /\ rb_out.kind \in {"return", "raise"})
    /\ [](op = "readback" => (ReadCount = Len(rb_log) /\ ReadCount <= max_retries))
    /\ [](op = "readback" => NumericIsLastRead)

\* with max_retries = 3 the second response was numeric: two reads, no third
C21_Witness ==
    /\ ReadbackEnded
    /\ max_retries = 3
    /\ Len(rb_log) = 2
    /\ rb_log[1] \in TransientResults
    /\ rb_log[2] = Str(<<"7">>)
    /\ ReadCount = 2
    /\ rb_out = Return(7)

\* three transient responses used up max_retries = 3: three reads, sentinel
C21_WitnessExhausted ==
    /\ ReadbackEnded
    /\ max_retries = 3
    /\ ReadCount = 3
    /\ OnlyTransientSeen
    /\ rb_out = Return(Sentinel)

\* C22: on a device whose screen_brightness holds one value throughout a run
\* of execute_brightness_test, the returned initial value equals the returned
\* final value, whatever reads fail and whatever faults are absorbed
C22_ConstantSettingSameEnds ==
    (devmode = "constant" /\ RampReturned) => out.val[1] = out.val[2]

----------------------------------------------------------------------------
(* Claims about setup_test of the brightness manager *)

BrightnessSetup == op = "setup" /\ variant = "common_utils"

IsTap(e) == e.kind = "shell" /\ e.arg[1] = "input tap"

\* the display-power state the code examines: `screen_state.upper()`
ObservedOn ==
    /\ screen_state # None
    /\ IsSubstring(<<"O", "N">>, Upper(screen_state[1]))

\* _wake_up_device has just returned True: its last command is the query of
\* one of at most three attempts, the answer contained "ON", no tap was issued
WakeConfirmed ==
    /\ ObservedOn
    /\ cmds # <<>>
    /\ cmds[Len(cmds)] = Shell(DisplayPowerQuery, TRUE)
    /\ CommandCount(WakeupKey) \in 1..3
    /\ TapsOf(cmds) = <<>>

\* every tap comes after every command of the wake-up
TapsAfterWake ==
    \A j, k \in 1..Len(cmds) :
       (IsTap(cmds[j]) /\ IsWakeCommand(cmds[k].arg)) => k < j

C23_WitnessLastAttemptFaults ==
    /\ BrightnessSetup /\ SetupEnded
    /\ wake_out.kind = "raise"
    /\ setup_out = Return(FALSE)
    /\ TapsOf(cmds) = <<>>

\* _wake_up_device returns True on an answer in lower case
C23_WitnessLowerCase ==
    /\ BrightnessSetup /\ pc = "su_after_wake"
    /\ wake_out = Return(TRUE)
    /\ screen_state = <<StateIs \o <<"o", "n">>>>

----------------------------------------------------------------------------
(* Claims about the press loops of the brightness manager *)

BrightnessRampEnded == op = "ramp" /\ variant = "common_utils" /\ pc = "done"

\* RIGHT and LEFT key events that raised
PressKeyFaults ==
    Len(SelectSeq(cmds, LAMBDA e : (IsKey(e, KeyRight) \/ IsKey(e, KeyLeft)) /\ ~e.ok))

\* every press of both loops was attempted, the RIGHT ones first, and each
\* press that faulted (in its key event or in its readback) is missing from
\* the trace while every other press has its sample
PressesComplete ==
    /\ KeyCount(KeyRight) = right_presses
    /\ KeyCount(KeyLeft) = left_presses
    /\ Precedes(KeyPositions(KeyRight), KeyPositions(KeyLeft))
    /\ Len(brightness_values) + dropped = right_presses + left_presses
    /\ PressKeyFaults <= dropped
    /\ TraceOrdered

\* C24 (as stated): in execute_brightness_test of the brightness manager,
\* exactly right_presses RIGHT key events and then exactly left_presses LEFT
\* key events are attempted in every run, whatever faults occur on individual
\* key events or on the readback after a press; a fault on one press only
\* omits that press's sample from the trace and never stops the remaining
\* presses.
C24_AllPressesInEveryRun ==
    BrightnessRampEnded => PressesComplete

\* C24 (amended): the same in every run whose initial readback did not raise;
\* a run whose initial readback raises attempts no key event at all.
C24_AllPressesOnceStarted ==
    BrightnessRampEnded =>
       IF initial_brightness # None
       THEN PressesComplete
       ELSE /\ out.kind = "raise"
            /\ KeyCount(KeyRight) = 0
            /\ KeyCount(KeyLeft) = 0

\* the first RIGHT key event raised, the second was still issued, and both
\* LEFT presses followed
C24_Witness ==
    /\ BrightnessRampEnded
    /\ right_presses = 2 /\ left_presses = 2
    /\ KeyCount(KeyRight) = 2 /\ KeyCount(KeyLeft) = 2
    /\ \E k \in KeyPositions(KeyRight) :
          /\ cmds[k] = Shell(KeyRight, FALSE)
          /\ \A j \in KeyPositions(KeyRight) : k <= j
    /\ dropped >= 2
    /\ Len(brightness_values) = 2

\* the initial readback raised: the run ended without a key event
C24_WitnessNoPress ==
    /\ BrightnessRampEnded
    /\ right_presses = 2
    /\ initial_brightness = None
    /\ KeyCount(KeyRight) = 0

====
